---- MODULE Spec2Model ----
(***************************************************************************)
(* Model of the retail scrapers (WalmartScraper, ChedrauiScraper), their   *)
(* per-term strategy chains (search_product), the term loop (scrape) and   *)
(* the API/HTML merge of the runner scripts.                                *)
(*                                                                         *)
(* A server response is abstracted to the list of product-like structures  *)
(* it carries. Each structure (an "item") carries the identifier and the   *)
(* name the source exposes; NoKey stands for a structure in which the      *)
(* identifier key is missing. URLs are kept relative to base_url.          *)
(***************************************************************************)
EXTENDS Integers, Sequences, FiniteSets, TLC

\* ------------------------------------------------------------------ bounds
\* MaxTerms: length of the term list given to scrape.
\* MaxItems: number of product structures the responses of one run may add to
\* the records already stored (a response is drawn no longer than what is left).
MaxTerms == 2
MaxItems == 2

\* ------------------------------------------------------------- alphabets
TermNames == {"a", "b"}
NoKey == "<nokey>"
Item(id, name) == [id |-> id, name |-> name]
\* the product structures responses are drawn from: without the identifier key,
\* with an empty identifier, with an identifier, and with an identifier but no name
Items == {Item(NoKey, "A"), Item("", "A"), Item("1", "A"), Item("1", "")}

RECURSIVE SeqsUpTo(_, _)
SeqsUpTo(S, n) ==
  IF n = 0 THEN {<<>>}
  ELSE LET shorter == SeqsUpTo(S, n - 1)
       IN shorter \cup {Append(l, x) : l \in {m \in shorter : Len(m) = n - 1}, x \in S}

ItemListsUpTo == [n \in 0..MaxItems |-> SeqsUpTo(Items, n)]
TermLists == SeqsUpTo(TermNames, MaxTerms) \ {<<>>}

\* Python's dict.get(key, default) on an item's identifier
GetId(item) == IF item.id = NoKey THEN "" ELSE item.id

\* f"{base_url}/ip/{product_id}", relative to base_url
IpUrl(id) == IF id = "1" THEN "/ip/1" ELSE IF id = "2" THEN "/ip/2" ELSE "/ip/"
\* the href of an element's link: the identifier is what the URL regex recovers
Href(item) == IF GetId(item) = "" THEN "" ELSE IpUrl(item.id)
\* f"{base_url}/search?q={quote(name)}"
SearchUrl(name) == IF name = "A" THEN "/search?q=A" ELSE "/search?q="

\* --------------------------------------------------------------- helpers
RECURSIVE MapSeq(_, _)
MapSeq(F(_), s) == IF s = <<>> THEN <<>> ELSE <<F(Head(s))>> \o MapSeq(F, Tail(s))

RECURSIVE FilterSeq(_, _)
FilterSeq(P(_), s) ==
  IF s = <<>> THEN <<>>
  ELSE (IF P(Head(s)) THEN <<Head(s)>> ELSE <<>>) \o FilterSeq(P, Tail(s))

\* product['source'] = tag, on a record of any shape
SetSource(rec, tag) == [k \in DOMAIN rec |-> IF k = "source" THEN tag ELSE rec[k]]
Retag(list, tag) == [i \in 1..Len(list) |-> SetSource(list[i], tag)]

\* ------------------------------------------------------------- responses
\* kind "none": make_request returned None (any transport failure);
\* kind "bad": the body is not the JSON the strategy expects;
\* kind "suggestions" / "list": the two formats the autocomplete endpoint uses;
\* kind "ok": a body of the expected shape.
Resp(k, l) == [kind |-> k, items |-> l]
FailResponses == {Resp("none", <<>>), Resp("bad", <<>>)}
DirectResponses(n) ==
  FailResponses \cup {Resp(k, l) : k \in {"suggestions", "list"}, l \in ItemListsUpTo[n]}
JsonResponses(n) == FailResponses \cup {Resp("ok", l) : l \in ItemListsUpTo[n]}
HtmlResponses(n) == {Resp("none", <<>>)} \cup {Resp("ok", l) : l \in ItemListsUpTo[n]}

\* One parsed search page: the items of the embedded JSON block, and the
\* elements matched by the first and by a later selector of product_selectors.
PageResp(k, j, s1, s2) == [kind |-> k, json |-> j, sel1 |-> s1, sel2 |-> s2]

\* ---------------------------------------------------------------- state
VARIABLES
  site,          \* "walmart" | "chedraui": the scraper class
  use_api,       \* self.use_api
  search_terms,  \* scrape's search_terms
  idx,           \* position of the for loop over search_terms
  pc,            \* control point inside scrape / search_product
  products,      \* the list search_product returns for the current term
  results,       \* scrape's results dict
  calls,         \* strategy invocations of the current search_product call
  trace,         \* scrape-level events in program order
  api_data,      \* runner: what the API run's scrape() returned
  html_data,     \* runner: what the HTML run's scrape() returned
  merged,        \* runner: the results dict of main()
  api_returned,  \* api_data as it was when scrape() returned it
  html_returned, \* html_data as it was when scrape() returned it
  input,         \* single-function checks: the arguments of the call
  output,        \* single-function checks: what each call returned or raised
  effects        \* single-function checks: calls made on the session, the clock, the RNG

vars == <<site, use_api, search_terms, idx, pc, products, results, calls, trace,
          api_data, html_data, merged, api_returned, html_returned,
          input, output, effects>>

callVars == <<input, output, effects>>
runnerVars == <<api_data, html_data, merged, api_returned, html_returned>>
scraperVars == <<site, use_api, search_terms, idx, pc, products, results, calls, trace>>
scraperVarsButPc == <<site, use_api, search_terms, idx, products, results, calls, trace>>

\* ------------------------------------------------- Walmart: strategies
WalmartDirectRecord(s, query) ==
  [name |-> s.name, price_text |-> "", price |-> 0, product_id |-> s.id,
   url |-> IpUrl(s.id), image_url |-> "", source |-> "api-direct",
   store |-> "Walmart", query |-> query]

WalmartSuggestionRecord(s, query) ==
  [name |-> s.name, price_text |-> "", price |-> 0, product_id |-> "",
   url |-> SearchUrl(s.name), image_url |-> "", source |-> "api-direct-suggestion",
   store |-> "Walmart", query |-> query]

search_product_direct_api(query, r) ==
  IF r.kind = "suggestions" THEN
    LET HasId(s) == s.id # NoKey
        Rec(s) == WalmartDirectRecord(s, query)
    IN MapSeq(Rec, FilterSeq(HasId, r.items))
  ELSE IF r.kind = "list" THEN
    LET Named(s) == s.name # ""
        Rec(s) == WalmartSuggestionRecord(s, query)
    IN MapSeq(Rec, FilterSeq(Named, r.items))
  ELSE <<>>

WalmartGraphqlRecord(p) ==
  [name |-> p.name, price_text |-> "", price |-> 0, product_id |-> GetId(p),
   usItemId |-> "", url |-> "", image_url |-> "", source |-> "api",
   store |-> "Walmart", availability |-> "", rating |-> 0, reviews |-> 0,
   category |-> "", raw_data |-> p]

\* the requests the GraphQL strategy sends after its own direct-API attempt
GraphqlOwn(rp, rg) ==
  LET response == IF rp.kind = "none" THEN rg ELSE rp
  IN IF response.kind = "ok" THEN MapSeq(WalmartGraphqlRecord, response.items) ELSE <<>>

search_product_graphql_api(query, rd, rp, rg) ==
  LET direct_results == search_product_direct_api(query, rd)
  IN IF direct_results # <<>> THEN direct_results ELSE GraphqlOwn(rp, rg)

WalmartPageJsonRecord(item, query) ==
  [name |-> item.name, price_text |-> "$0.0", price |-> 0, product_id |-> GetId(item),
   url |-> IpUrl(GetId(item)), image_url |-> "", source |-> "search-page-json",
   store |-> "Walmart", query |-> query]

WalmartPageHtmlRecord(item, query) ==
  [name |-> item.name, price_text |-> "", price |-> 0, product_id |-> GetId(item),
   url |-> Href(item), image_url |-> "", source |-> "search-page-html",
   store |-> "Walmart", query |-> query]

\* the selector loop of extract_products_from_search_page
PageSelectorProducts(query, r) ==
  LET Named(e) == e.name # ""
      Rec(e) == WalmartPageHtmlRecord(e, query)
      first == MapSeq(Rec, FilterSeq(Named, r.sel1))
  IN IF first # <<>> THEN first ELSE MapSeq(Rec, FilterSeq(Named, r.sel2))

extract_products_from_search_page(query, r) ==
  IF r.kind # "ok" THEN <<>>
  ELSE LET Rec(i) == WalmartPageJsonRecord(i, query)
           embedded == MapSeq(Rec, r.json)
       IN IF embedded # <<>> THEN embedded ELSE PageSelectorProducts(query, r)

WalmartHtmlRecord(item, query) ==
  [name |-> item.name, brand |-> "", price |-> 0, price_text |-> "", list_price |-> 0,
   image_url |-> "", product_url |-> Href(item), product_id |-> GetId(item),
   query |-> query, source |-> "html"]

search_product_html(query, r) ==
  IF r.kind # "ok" THEN <<>>
  ELSE LET Rec(i) == WalmartHtmlRecord(i, query) IN MapSeq(Rec, r.items)


\* ------------------------------------------------ Chedraui: strategies
ChedrauiApiRecord(p, query) ==
  [name |-> p.name, brand |-> "", price |-> 0, price_text |-> "", list_price |-> "None",
   image_url |-> "", product_url |-> "", product_id |-> GetId(p), query |-> query,
   source |-> "api"]

search_product_api(query, r) ==
  IF r.kind # "ok" THEN <<>>
  ELSE LET Rec(p) == ChedrauiApiRecord(p, query) IN MapSeq(Rec, r.items)

\* f"{query.capitalize()} {i+1}" for the i-th element (1-based here)
SynthNames ==
  [a |-> <<"A 1", "A 2", "A 3", "A 4", "A 5", "A 6", "A 7", "A 8", "A 9", "A 10", "A 11",
           "A 12", "A 13">>,
   b |-> <<"B 1", "B 2", "B 3", "B 4", "B 5", "B 6", "B 7", "B 8", "B 9", "B 10", "B 11",
           "B 12", "B 13">>]
SynthName(query, i) == SynthNames[query][i]

\* extract_price on the two price texts the page elements of this model carry
PageTexts == {"", "$5"}
ChedrauiPriceOf(text) == IF text = "$5" THEN 5 ELSE 0

\* the local variable `name` of _extract_products before its first assignment
Unbound == "<unbound>"

\* elements of the semantic XPaths: priced = has a currencyContainer span,
\* name = text of its productBrand span (NoKey: no such span)
XElems == {[priced |-> FALSE, name |-> NoKey], [priced |-> TRUE, name |-> NoKey],
           [priced |-> TRUE, name |-> "A"]}
\* elements of the literal XPath: their text content
LitElems == PageTexts
\* price elements of the general fallback: the text, and for each ancestor, from
\* the parent up to the root, the text of the name element select_one finds in
\* it (NoKey: none)
FbElem(chain) == [text |-> "$5", ancestors |-> chain]
\* for _ in range(5)
AncestorLevels == 5
NoName(n) == [j \in 1..n |-> NoKey]
\* one ancestor and no name, five ancestors and no name, a name in the parent, a
\* name in the fifth ancestor
FbElems ==
  { FbElem(NoName(1)), FbElem(NoName(AncestorLevels)), FbElem(<<"A">>),
    FbElem(Append(NoName(AncestorLevels - 1), "A")) }

LitListsUpTo == [n \in 0..MaxItems |-> SeqsUpTo(LitElems, n)]
\* The last ancestor is the document, which holds every name element of the
\* page: on one page either every price element has an ancestor with a name
\* element or none has.
HasName(chain) == \E j \in 1..Len(chain) : chain[j] # NoKey
OnOnePage(fb) == \A i, j \in 1..Len(fb) : HasName(fb[i].ancestors) = HasName(fb[j].ancestors)
FbListsUpTo == [n \in 0..MaxItems |-> {fb \in SeqsUpTo(FbElems, n) : OnOnePage(fb)}]
NumSemPaths == 3
\* the element lists of the semantic paths, n elements at most in all
SemInputsUpTo ==
  [n \in 0..MaxItems |->
     {s \in [1..NumSemPaths -> SeqsUpTo(XElems, n)] : Len(s[1]) + Len(s[2]) + Len(s[3]) <= n}]

ChedrauiHtmlRecord(e, query) ==
  [name |-> e.name, price |-> 0, price_text |-> "", image_url |-> "",
   product_url |-> Href(e), product_id |-> GetId(e), query |-> query, source |-> "html"]

\* CSS stage: records only for elements with a name
CssStage(css, query) ==
  LET Named(e) == e.name # ""
      Rec(e) == ChedrauiHtmlRecord(e, query)
  IN MapSeq(Rec, FilterSeq(Named, css))
\* `name` after the CSS stage: the last element's name, whether recorded or not
CssName(css) == IF css = <<>> THEN Unbound ELSE css[Len(css)].name

XPathCap == 10
FirstN(s, n) == IF Len(s) <= n THEN s ELSE SubSeq(s, 1, n)

ChedrauiXPathRecord(e, i, query) ==
  [name |-> IF e.name = NoKey THEN SynthName(query, i) ELSE e.name,
   price |-> 0, price_text |-> "", image_url |-> "", product_url |-> "",
   query |-> query, source |-> "xpath", note |-> "Extracted using XPath"]

\* the records of one semantic path: enumerate(elements[:10]), priced ones only
RECURSIVE PathRecords(_, _, _)
PathRecords(elems, i, query) ==
  IF i > Len(elems) THEN <<>>
  ELSE (IF elems[i].priced THEN <<ChedrauiXPathRecord(elems[i], i, query)>> ELSE <<>>)
       \o PathRecords(elems, i + 1, query)

RECURSIVE SemRecords(_, _, _)
SemRecords(sem, k, query) ==
  IF k > NumSemPaths THEN <<>>
  ELSE PathRecords(FirstN(sem[k], XPathCap), 1, query) \o SemRecords(sem, k + 1, query)

\* XPath stage: the semantic paths are used only when the literal path is empty
XPathStage(lit, sem, query) == IF lit # <<>> THEN <<>> ELSE SemRecords(sem, 1, query)

ChedrauiOrigRecord(text, i, query, url) ==
  [name |-> SynthName(query, i), price |-> ChedrauiPriceOf(text), price_text |-> text,
   image_url |-> "", product_url |-> url, query |-> query, source |-> "xpath-original",
   note |-> "Extracted using original XPath"]

RECURSIVE OrigStage(_, _, _, _)
OrigStage(lit, i, query, url) ==
  IF i > Len(lit) THEN <<>>
  ELSE (IF lit[i] # "" THEN <<ChedrauiOrigRecord(lit[i], i, query, url)>> ELSE <<>>)
       \o OrigStage(lit, i + 1, query, url)

ChedrauiFallbackRecord(e, nm, query, url) ==
  [name |-> nm, price |-> ChedrauiPriceOf(e.text), price_text |-> e.text,
   image_url |-> "", product_url |-> url, query |-> query, source |-> "fallback",
   note |-> "Extracted using general fallback method"]

\* the walk from the parent upwards: `examined` counts the ancestors select_one
\* was called on, `name` is the text found (NoKey: none), `orelse` tells whether
\* the loop ended without break, so that its else branch ran
RECURSIVE WalkUpTo(_, _, _)
WalkUpTo(chain, j, levels) ==
  IF j > levels THEN [examined |-> j - 1, name |-> NoKey, orelse |-> TRUE]
  ELSE IF j > Len(chain) THEN [examined |-> j - 1, name |-> NoKey, orelse |-> FALSE]
  ELSE IF chain[j] # NoKey THEN [examined |-> j, name |-> chain[j], orelse |-> FALSE]
  ELSE WalkUpTo(chain, j + 1, levels)

\* variant: the walk goes on to the root
AncestorWalkToRoot(chain) == WalkUpTo(chain, 1, Len(chain))
AncestorWalk(chain) == WalkUpTo(chain, 1, AncestorLevels)

\* `name` after the ancestor walk of one price element: the found text, the
\* synthetic name when five ancestors were searched in vain (the for-else), and
\* otherwise whatever `name` held before (the walk ran out of ancestors)
FallbackName(e, i, prev, query) ==
  LET walk == AncestorWalk(e.ancestors)
  IN IF walk.name # NoKey THEN walk.name
     ELSE IF walk.orelse THEN SynthName(query, i)
     ELSE prev

\* general fallback over all_price_elements[:10]; an element whose `name` is
\* still unbound raises NameError, which the loop body's except swallows
RECURSIVE FallbackStage(_, _, _, _, _)
FallbackStage(fb, i, prev, query, url) ==
  IF i > Len(fb) THEN <<>>
  ELSE LET nm == FallbackName(fb[i], i, prev, query)
       IN (IF nm = Unbound THEN <<>> ELSE <<ChedrauiFallbackRecord(fb[i], nm, query, url)>>)
          \o FallbackStage(fb, i + 1, nm, query, url)

\* One parsed page: tree = lxml could parse it
Page(css, tree, lit, sem, fb) == [css |-> css, tree |-> tree, lit |-> lit, sem |-> sem, fb |-> fb]

\* `name` when the fallback starts
NameBeforeFallback(page) == CssName(page.css)

\* variant: every stage runs and adds its records
_extract_products_every_stage(page, query, url) ==
  CssStage(page.css, query)
  \o (IF page.tree THEN XPathStage(page.lit, page.sem, query) ELSE <<>>)
  \o (IF page.tree THEN OrigStage(page.lit, 1, query, url) ELSE <<>>)
  \o FallbackStage(FirstN(page.fb, XPathCap), 1, NameBeforeFallback(page), query, url)

_extract_products(page, query, url) ==
  LET p1 == CssStage(page.css, query)
      p2 == IF page.tree THEN XPathStage(page.lit, page.sem, query) ELSE <<>>
      p3 == IF page.tree THEN OrigStage(page.lit, 1, query, url) ELSE <<>>
      p4 == FallbackStage(FirstN(page.fb, XPathCap), 1, NameBeforeFallback(page), query, url)
  IN IF p1 # <<>> THEN p1
     ELSE IF p2 # <<>> THEN p2
     ELSE IF p3 # <<>> THEN p3
     ELSE p4


\* ------------------------------------------------------- search_product
\* the strategies search_product tries, in the order it tries them
Chain(s, api) ==
  IF s = "walmart"
  THEN (IF api THEN <<"direct", "graphql", "page">> ELSE <<>>) \o <<"html">>
  ELSE (IF api THEN <<"api">> ELSE <<>>) \o <<"html">>

\* the tag search_product writes on the records of a strategy before returning them
\* (Chedraui's search_product returns the strategy's list as it is)
ReturnTag(fn) ==
  IF fn = "direct" THEN "api-direct"
  ELSE IF fn = "graphql" THEN "api-graphql"
  ELSE IF fn = "page" THEN "search-page"
  ELSE "html"

Returned(s, fn, out) == IF s = "walmart" THEN Retag(out, ReturnTag(fn)) ELSE out

PosIn(chain, fn) == CHOOSE k \in 1..Len(chain) : chain[k] = fn

Call(fn, by, out) == [fn |-> fn, by |-> by, out |-> out]

term == search_terms[idx]

\* the records stored so far, and how many structures a response may still carry
RECURSIVE SumLens(_, _)
SumLens(dict, keys) ==
  IF keys = {} THEN 0
  ELSE LET k == CHOOSE x \in keys : TRUE IN Len(dict[k]) + SumLens(dict, keys \ {k})
Rem ==
  LET stored == SumLens(results, DOMAIN results)
  IN IF stored >= MaxItems THEN 0 ELSE MaxItems - stored

\* variant: a non-empty list does not end the chain
AfterStrategyKeepsGoing(fn, out) ==
  LET chain == Chain(site, use_api)
      k == PosIn(chain, fn)
  IN IF k = Len(chain)
     THEN /\ products' = Returned(site, fn, out)
          /\ pc' = "store"
     ELSE /\ products' = products
          /\ pc' = chain[k + 1]

\* what search_product does with the list `out` that strategy `fn` returned
AfterStrategy(fn, out) ==
  LET chain == Chain(site, use_api)
      k == PosIn(chain, fn)
  IN IF out # <<>> \/ k = Len(chain)
     THEN /\ products' = Returned(site, fn, out)
          /\ pc' = "store"
     ELSE /\ products' = products
          /\ pc' = chain[k + 1]

frame == UNCHANGED <<site, use_api, search_terms, idx, results, trace, runnerVars, callVars>>

WalmartDirect ==
  /\ site = "walmart" /\ pc = "direct"
  /\ \E r \in DirectResponses(Rem) :
       LET out == search_product_direct_api(term, r)
       IN /\ calls' = Append(calls, Call("direct", "search_product", out))
          /\ AfterStrategy("direct", out)
  /\ frame

WalmartGraphql ==
  /\ site = "walmart" /\ pc = "graphql"
  /\ \E rd \in DirectResponses(Rem) :
       LET direct == search_product_direct_api(term, rd)
       IN \E rp \in (IF direct # <<>> THEN {Resp("none", <<>>)} ELSE JsonResponses(Rem)) :
            \E rg \in (IF direct = <<>> /\ rp.kind = "none"
                       THEN JsonResponses(Rem) ELSE {Resp("none", <<>>)}) :
              LET out == search_product_graphql_api(term, rd, rp, rg)
              IN /\ calls' = calls \o <<Call("graphql", "search_product", out),
                                        Call("direct", "graphql", direct)>>
                 /\ AfterStrategy("graphql", out)
  /\ frame

WalmartPage ==
  /\ site = "walmart" /\ pc = "page"
  /\ \E k \in {"none", "ok"} :
       \E j \in (IF k = "ok" THEN ItemListsUpTo[Rem] ELSE {<<>>}) :
         \E s1 \in (IF k = "ok" /\ j = <<>> THEN ItemListsUpTo[Rem] ELSE {<<>>}) :
           \E s2 \in (IF k = "ok" /\ j = <<>> THEN ItemListsUpTo[Rem - Len(s1)] ELSE {<<>>}) :
             LET out == extract_products_from_search_page(term, PageResp(k, j, s1, s2))
             IN /\ calls' = Append(calls, Call("page", "search_product", out))
                /\ AfterStrategy("page", out)
  /\ frame

WalmartHtml ==
  /\ site = "walmart" /\ pc = "html"
  /\ \E r \in HtmlResponses(Rem) :
       LET out == search_product_html(term, r)
       IN /\ calls' = Append(calls, Call("html", "search_product", out))
          /\ AfterStrategy("html", out)
  /\ frame

ChedrauiApi ==
  /\ site = "chedraui" /\ pc = "api"
  /\ \E r \in JsonResponses(Rem) :
       LET out == search_product_api(term, r)
       IN /\ calls' = Append(calls, Call("api", "search_product", out))
          /\ AfterStrategy("api", out)
  /\ frame

EmptySem == [k \in 1..NumSemPaths |-> <<>>]

\* get_page raised: nothing in search_product or scrape catches it
ChedrauiHtmlRaises ==
  /\ site = "chedraui" /\ pc = "html"
  /\ calls' = Append(calls, Call("html", "search_product", <<>>))
  /\ pc' = "raised"
  /\ UNCHANGED products
  /\ frame

\* get_page returned a page; the parts of the page a stage never reads are not drawn
ChedrauiHtml ==
  /\ site = "chedraui" /\ pc = "html"
  /\ \E css \in ItemListsUpTo[Rem] :
       LET read2 == CssStage(css, term) = <<>>
       IN \E tree \in (IF read2 THEN BOOLEAN ELSE {TRUE}) :
          \E lit \in (IF read2 /\ tree THEN LitListsUpTo[Rem] ELSE {<<>>}) :
          \E sem \in (IF read2 /\ tree /\ lit = <<>> THEN SemInputsUpTo[Rem] ELSE {EmptySem}) :
            LET read4 == /\ read2
                         /\ tree => /\ XPathStage(lit, sem, term) = <<>>
                                    /\ OrigStage(lit, 1, term, "/search") = <<>>
            IN \E fb \in (IF read4 THEN FbListsUpTo[Rem] ELSE {<<>>}) :
                 LET out == _extract_products(Page(css, tree, lit, sem, fb), term, "/search")
                 IN /\ calls' = Append(calls, Call("html", "search_product", out))
                    /\ AfterStrategy("html", out)
  /\ frame

\* --------------------------------------------------------------- scrape
Event(op, t) == [op |-> op, term |-> t]

SearchBegin ==
  /\ pc = "loop"
  /\ pc' = Chain(site, use_api)[1]
  /\ calls' = <<>>
  /\ products' = <<>>
  /\ trace' = Append(trace, Event("search_product", term))
  /\ UNCHANGED <<site, use_api, search_terms, idx, results, runnerVars, callVars>>

\* results[term] = products
Put(dict, key, val) ==
  [k \in DOMAIN dict \cup {key} |-> IF k = key THEN val ELSE dict[k]]

Store ==
  /\ pc = "store"
  /\ results' = Put(results, term, products)
  /\ trace' = Append(trace, Event("store", term))
  /\ pc' = "pace"
  /\ UNCHANGED <<site, use_api, search_terms, idx, products, calls, runnerVars, callVars>>

\* variant: the loop moves on without the rate_limit call
PaceSkipsRateLimit ==
  /\ pc = "pace"
  /\ idx' = idx + 1
  /\ pc' = IF idx = Len(search_terms) THEN "done" ELSE "loop"
  /\ UNCHANGED <<site, use_api, search_terms, products, results, calls, trace, runnerVars, callVars>>

\* rate_limit(Config.REQUEST_DELAY), then the next iteration or the return
Pace ==
  /\ pc = "pace"
  /\ trace' = Append(trace, Event("rate_limit", term))
  /\ idx' = idx + 1
  /\ pc' = IF idx = Len(search_terms) THEN "done" ELSE "loop"
  /\ UNCHANGED <<site, use_api, search_terms, products, results, calls, runnerVars, callVars>>

EmptyDict == <<>>

Init ==
  /\ site \in {"walmart", "chedraui"}
  /\ use_api \in BOOLEAN
  /\ search_terms \in TermLists
  /\ idx = 1
  /\ pc = "loop"
  /\ products = <<>>
  /\ results = EmptyDict
  /\ calls = <<>>
  /\ trace = <<>>
  /\ api_data = EmptyDict /\ html_data = EmptyDict /\ merged = EmptyDict
  /\ api_returned = EmptyDict /\ html_returned = EmptyDict
  /\ input = <<>> /\ output = <<>> /\ effects = <<>>

Next ==
  \/ SearchBegin
  \/ WalmartDirect
  \/ WalmartGraphql
  \/ WalmartPage
  \/ WalmartHtml
  \/ ChedrauiApi
  \/ ChedrauiHtmlRaises
  \/ ChedrauiHtml
  \/ Store
  \/ Pace

Spec == Init /\ [][Next]_vars


\* ====================================================================
\* Properties of search_product and scrape (specification Spec)
\* ====================================================================
StrategyPcs == {"direct", "graphql", "page", "html", "api"}
Returning == pc = "store"

\* the strategies search_product itself invoked, in invocation order
TopCalls ==
  LET Top(c) == c.by = "search_product" IN FilterSeq(Top, calls)

\* the priority order of the strategies as the specification states it
PriorityOrder ==
  IF site = "walmart" THEN <<"direct", "graphql", "page", "html">> ELSE <<"api", "html">>
\* with the API disabled only the HTML strategy is configured
Configured == IF use_api THEN PriorityOrder ELSE <<"html">>

\* equal in every field but the source tag
SameButSource(x, y) ==
  /\ DOMAIN x = DOMAIN y
  /\ \A f \in DOMAIN x \ {"source"} : x[f] = y[f]
SameRecords(a, b) ==
  /\ Len(a) = Len(b)
  /\ \A i \in 1..Len(a) : SameButSource(a[i], b[i])

\* C1: search_product invokes the strategies strictly in priority order; every
\* strategy invoked before the last one returned no records; when it returns, the
\* list is the last invoked strategy's list (its records, in order), which is
\* empty only if every configured strategy was invoked and returned nothing.
C1_ChainStopsAtFirstSuccess ==
  LET top == TopCalls
      n == Len(top)
  IN /\ n <= Len(Configured)
     /\ \A i \in 1..n : top[i].fn = Configured[i]
     /\ \A i \in 1..n : i < n => top[i].out = <<>>
     /\ pc \in StrategyPcs => /\ \A i \in 1..n : top[i].out = <<>>
                              /\ n < Len(Configured)
                              /\ pc = Configured[n + 1]
     /\ Returning => /\ n >= 1
                     /\ SameRecords(products, top[n].out)
                     /\ products = <<>> => n = Len(Configured)

\* the third Walmart strategy succeeded after two empty ones; HTML was never invoked
C1_Witness ==
  /\ site = "walmart" /\ use_api /\ Returning
  /\ Len(TopCalls) = 3
  /\ TopCalls[3].fn = "page"
  /\ Len(products) = 2

\* C2: no exception raised inside a strategy propagates out of search_product.
C2_NoExceptionLeavesSearchProduct == pc # "raised"

\* C3: once scrape has ended it has returned a mapping holding every requested term.
C3_EveryTermHasAKey ==
  pc \in {"done", "raised"} =>
    /\ pc = "done"
    /\ \A i \in 1..Len(search_terms) : search_terms[i] \in DOMAIN results

\* C4: within one search_product call no strategy function is invoked twice.
C4_NoStrategyInvokedTwice ==
  \A i, j \in 1..Len(calls) : calls[i].fn = calls[j].fn => i = j

\* the event scrape performs at position i of its run
ExpectedEvent(i) ==
  Event(<<"search_product", "store", "rate_limit">>[((i - 1) % 3) + 1],
        search_terms[((i - 1) \div 3) + 1])

\* C5: scrape handles the terms in the given order, one at a time: for each term
\* one search_product call, then the store of its list under the term's key, then
\* one rate_limit call; strategies run only between a term's call and its store.
C5_TermsInOrderStoredThenPaced ==
  /\ Len(trace) <= 3 * Len(search_terms)
  /\ \A i \in 1..Len(trace) : trace[i] = ExpectedEvent(i)
  /\ pc \in StrategyPcs \cup {"store"} => Len(trace) = 3 * (idx - 1) + 1
  /\ pc = "pace" => /\ Len(trace) = 3 * (idx - 1) + 2
                    /\ results[term] = products
  /\ pc = "loop" => Len(trace) = 3 * (idx - 1)
  /\ pc = "done" => Len(trace) = 3 * Len(search_terms)

\* two different terms were handled to the end
C5_Witness ==
  /\ pc = "done"
  /\ Len(search_terms) = 2
  /\ search_terms[1] # search_terms[2]
  /\ Len(trace) = 6
  /\ results[search_terms[1]] # <<>>

\* the strategy whose code built the records search_product is returning
Extractor ==
  LET last == TopCalls[Len(TopCalls)]
      Nested(c) == c.by = last.fn /\ c.out # <<>>
      inner == FilterSeq(Nested, calls)
  IN IF inner # <<>> THEN inner[1].fn ELSE last.fn

\* the identifier of a strategy in the source-tag vocabulary of search_product
StrategyTags(fn) ==
  IF site = "walmart"
  THEN (IF fn = "direct" THEN {"api-direct"}
        ELSE IF fn = "graphql" THEN {"api-graphql"}
        ELSE IF fn = "page" THEN {"search-page"}
        ELSE {"html"})
  ELSE (IF fn = "api" THEN {"api"} ELSE {"html", "xpath", "xpath-original", "fallback"})

\* C9: every returned record carries a source tag, and the tag names the strategy
\* that extracted the record.
C9_TagNamesExtractingStrategy ==
  Returning =>
    \A i \in 1..Len(products) :
      /\ "source" \in DOMAIN products[i]
      /\ products[i].source \in StrategyTags(Extractor)

RequiredFields ==
  {"name", "price", "price_text", "product_id", "image_url", "product_url", "query", "source"}

\* C10: every returned record has all eight canonical fields.
C10_AllCanonicalFields ==
  Returning => \A i \in 1..Len(products) : RequiredFields \subseteq DOMAIN products[i]


\* ====================================================================
\* The runner's merge of the API run and the HTML run (method "both")
\* ====================================================================
MaxPrimary == 2
MaxSecondary == 3

\* the structures the two runs' responses carry in SpecMerge
MergeItems == {Item("1", "A"), Item("1", "B"), Item("2", "C"), Item(NoKey, "D")}
MergeTerm == "a"
MergeUrl == "/search"

\* the lists _extract_products returns for pages of at most n elements in which
\* one of its stages finds its elements
ExtractOutputs(n) ==
  {_extract_products(Page(css, TRUE, <<>>, EmptySem, <<>>), MergeTerm, MergeUrl) :
     css \in SeqsUpTo(MergeItems, n)}
  \cup {_extract_products(Page(<<>>, TRUE, lit, EmptySem, <<>>), MergeTerm, MergeUrl) :
     lit \in SeqsUpTo(LitElems, n)}
  \cup {_extract_products(Page(<<>>, TRUE, <<>>, [k \in 1..NumSemPaths |-> IF k = 1 THEN l ELSE <<>>],
                               <<>>), MergeTerm, MergeUrl) :
     l \in SeqsUpTo(XElems, n)}
  \cup {_extract_products(Page(<<>>, TRUE, <<>>, EmptySem, fb), MergeTerm, MergeUrl) :
     fb \in {l \in SeqsUpTo(FbElems, n) : OnOnePage(l)}}

\* what search_product can return for MergeTerm in the run with use_api = True
ApiRunLists(s) ==
  LET L == SeqsUpTo(MergeItems, MaxPrimary)
  IN IF s = "walmart"
     THEN {Returned(s, "direct", search_product_direct_api(MergeTerm, Resp(k, l))) :
             k \in {"suggestions", "list"}, l \in L}
          \cup {Returned(s, "graphql", GraphqlOwn(Resp("ok", l), Resp("none", <<>>))) : l \in L}
          \cup {Returned(s, "page",
                  extract_products_from_search_page(MergeTerm, PageResp("ok", l, <<>>, <<>>))) :
                  l \in L}
          \cup {Returned(s, "html", search_product_html(MergeTerm, Resp("ok", l))) : l \in L}
     ELSE {search_product_api(MergeTerm, Resp("ok", l)) : l \in L}
          \cup ExtractOutputs(MaxPrimary)

\* what search_product can return for MergeTerm in the run with use_api = False
HtmlRunLists(s) ==
  IF s = "walmart"
  THEN {Returned(s, "html", search_product_html(MergeTerm, Resp("ok", l))) :
          l \in SeqsUpTo(MergeItems, MaxSecondary)}
  ELSE ExtractOutputs(MaxSecondary)

Dicts(lists) == {EmptyDict} \cup {[k \in {MergeTerm} |-> l] : l \in lists}

\* dict.get(key, default)
None == "<None>"
DictGet(rec, key, default) == IF key \in DOMAIN rec THEN rec[key] ELSE default

\* existing_ids = set(p.get('product_id', '') for p in results[product_type])
ExistingIds(list) == {DictGet(list[i], "product_id", "") : i \in 1..Len(list)}

\* variant: the identifier test without the "no identifier" escape
IsNewByIdOnly(existing_ids, product) ==
  DictGet(product, "product_id", None) \notin existing_ids

\* not product.get('product_id') or product.get('product_id') not in existing_ids
IsNew(existing_ids, product) ==
  LET id == DictGet(product, "product_id", None)
  IN id \in {None, ""} \/ id \notin existing_ids

\* variant: the identifier set also receives the identifier of each record appended
RECURSIVE AppendNewTracking(_, _, _)
AppendNewTracking(acc, ids, rest) ==
  IF rest = <<>> THEN acc
  ELSE LET p == Head(rest)
       IN IF IsNew(ids, p)
          THEN AppendNewTracking(Append(acc, p), ids \cup {DictGet(p, "product_id", "")}, Tail(rest))
          ELSE AppendNewTracking(acc, ids, Tail(rest))
MergeListsTrackingAppended(primary, secondary) ==
  AppendNewTracking(primary, ExistingIds(primary), Retag(secondary, "html"))

\* the merge of one term present in both dicts: the secondary records are tagged
\* 'html', then the new ones are appended to the primary list
MergeLists(primary, secondary) ==
  LET existing_ids == ExistingIds(primary)
      New(p) == IsNew(existing_ids, p)
  IN primary \o FilterSeq(New, Retag(secondary, "html"))

\* for product_type, products in api_data.items(): results[product_type] = products
CopyApiResults ==
  /\ pc = "copy"
  /\ merged' = api_data
  /\ pc' = "merge"
  /\ UNCHANGED <<site, use_api, search_terms, idx, products, results, calls, trace,
                 api_data, html_data, api_returned, html_returned, callVars>>

\* the loop over html_data.items(). The lists of results are the list objects of
\* api_data, and the records appended are the record objects of html_data: what the
\* loop writes through results it writes to them.
MergeHtmlResults ==
  /\ pc = "merge"
  /\ merged' = [k \in DOMAIN merged \cup DOMAIN html_data |->
                  IF k \notin DOMAIN html_data THEN merged[k]
                  ELSE IF k \in DOMAIN merged THEN MergeLists(merged[k], html_data[k])
                  ELSE html_data[k]]
  /\ html_data' = [k \in DOMAIN html_data |->
                     IF k \in DOMAIN merged THEN Retag(html_data[k], "html") ELSE html_data[k]]
  /\ api_data' = [k \in DOMAIN api_data |-> merged'[k]]
  /\ pc' = "merged"
  /\ UNCHANGED <<site, use_api, search_terms, idx, products, results, calls, trace,
                 api_returned, html_returned, callVars>>

MergeInit ==
  /\ site \in {"walmart", "chedraui"}
  /\ api_data \in Dicts(ApiRunLists(site))
  /\ html_data \in Dicts(HtmlRunLists(site))
  /\ api_returned = api_data
  /\ html_returned = html_data
  /\ merged = EmptyDict
  /\ pc = "copy"
  /\ use_api = FALSE
  /\ search_terms = <<MergeTerm>>
  /\ idx = 1
  /\ products = <<>>
  /\ results = EmptyDict
  /\ calls = <<>>
  /\ trace = <<>>
  /\ input = <<>> /\ output = <<>> /\ effects = <<>>

MergeNext ==
  \/ CopyApiResults
  \/ MergeHtmlResults

SpecMerge == MergeInit /\ [][MergeNext]_vars

Merged == pc = "merged"
InBoth == DOMAIN api_returned \cap DOMAIN html_returned

\* the secondary records of term k the merge rule keeps, as the HTML run returned them
Appended(k) ==
  LET prim == api_returned[k]
      PrimaryIds == {prim[i].product_id : i \in {j \in 1..Len(prim) : "product_id" \in DOMAIN prim[j]}}
      Kept(r) == \/ "product_id" \notin DOMAIN r
                 \/ r.product_id = ""
                 \/ r.product_id \notin PrimaryIds
  IN FilterSeq(Kept, html_returned[k])

\* C6: for a term of both sets the merged list is the primary list followed by the
\* secondary records whose identifier is empty, absent or not a primary identifier,
\* in order; a term of the secondary set alone gets the secondary list unchanged.
C6_MergeKeepsPrimaryAppendsNew ==
  Merged =>
    \A k \in DOMAIN html_returned :
      IF k \in DOMAIN api_returned
      THEN LET prim == api_returned[k]
               app == Appended(k)
           IN /\ Len(merged[k]) = Len(prim) + Len(app)
              /\ SubSeq(merged[k], 1, Len(prim)) = prim
              /\ SameRecords(SubSeq(merged[k], Len(prim) + 1, Len(merged[k])), app)
      ELSE merged[k] = html_returned[k]

Names(list) == [i \in 1..Len(list) |-> list[i].name]
Ids(list) == [i \in 1..Len(list) |-> DictGet(list[i], "product_id", "")]

\* primary [1 A], secondary [1 B, 2 C, no-id D]: merged is A, C, D
C6_Witness ==
  /\ Merged
  /\ MergeTerm \in InBoth
  /\ Names(api_returned[MergeTerm]) = <<"A">> /\ Ids(api_returned[MergeTerm]) = <<"1">>
  /\ Names(html_returned[MergeTerm]) = <<"B", "C", "D">>
  /\ Ids(html_returned[MergeTerm]) = <<"1", "2", "">>
  /\ Names(merged[MergeTerm]) = <<"A", "C", "D">>

\* how many records of the list carry the identifier x
CountId(list, x) == Cardinality({i \in 1..Len(list) : Ids(list)[i] = x})
NonEmptyIds(list) == {Ids(list)[i] : i \in 1..Len(list)} \ {""}

\* C29: the identifiers the secondary records are compared with are those of the
\* primary list as it was before any append: a non-empty identifier absent from
\* the primary list occurs in the merged list as often as in the secondary list
\* (records sharing it are all appended), and an identifier of the primary list
\* occurs as often as in the primary list (its duplicates are kept, no secondary
\* record with it is added).
C29_IdsTakenFromPrimaryBeforeAppends ==
  Merged =>
    \A k \in InBoth :
      \A x \in NonEmptyIds(api_returned[k]) \cup NonEmptyIds(html_returned[k]) :
        CountId(merged[k], x) =
          IF CountId(api_returned[k], x) > 0 THEN CountId(api_returned[k], x)
          ELSE CountId(html_returned[k], x)

\* primary [2, 2], secondary with identifier 1 twice: merged is 2, 2, 1, 1
C29_Witness ==
  /\ Merged
  /\ MergeTerm \in InBoth
  /\ Ids(api_returned[MergeTerm]) = <<"2", "2">>
  /\ Ids(html_returned[MergeTerm]) = <<"1", "1">>
  /\ Ids(merged[MergeTerm]) = <<"2", "2", "1", "1">>

\* C7: the result sets the two scrape() runs returned are never changed afterwards.
C7_ReturnedSetsUnchanged ==
  /\ api_data = api_returned
  /\ html_data = html_returned

\* C8: after the merge every appended record still carries the source tag its
\* extraction strategy gave it.
C8_AppendedKeepOriginTag ==
  Merged =>
    \A k \in InBoth :
      LET n == Len(api_returned[k])
          app == Appended(k)
      IN \A i \in 1..Len(app) :
           n + i <= Len(merged[k]) => merged[k][n + i].source = app[i].source

\* ====================================================================
\* Price parsing: WalmartScraper.extract_price, ChedrauiScraper.extract_price
\* ====================================================================
\* A Python str is a sequence of one-character strings. A float is kept as its
\* exact decimal value: the significant digits (no leading or trailing zero) and
\* the position of the decimal point, value = 0.d1d2...dn * 10^point. This is
\* what float() and repr() compute for up to 15 significant digits.

\* --------------------------------------------------------- Python values
PyNone == [none |-> TRUE]
PyStr(s) == [str |-> s]
PyInt(n) == [int |-> n]
PyList(l) == [list |-> l]
IsStr(v) == DOMAIN v = {"str"}
\* not v
Falsy(v) ==
  \/ DOMAIN v = {"none"}
  \/ DOMAIN v = {"str"} /\ v.str = <<>>
  \/ DOMAIN v = {"int"} /\ v.int = 0
  \/ DOMAIN v = {"list"} /\ v.list = <<>>

Returns(v) == [ret |-> v]
Raises(e) == [raise |-> e]

\* ------------------------------------------------------------ str methods
DigitChars == {"0", "1", "2", "3", "4", "5", "6", "7", "8", "9"}
MarkerText == <<"p", "r", "e", "c", "i", "o", " ", "a", "c", "t", "u", "a", "l">>

RECURSIVE Concat(_)
Concat(ss) == IF ss = <<>> THEN <<>> ELSE Head(ss) \o Concat(Tail(ss))

OccursAt(s, i, m) == i + Len(m) - 1 <= Len(s) /\ SubSeq(s, i, i + Len(m) - 1) = m
\* s.find(m) + 1: the position of the first occurrence, 0 when there is none
Find(s, m) ==
  LET at == {i \in 1..Len(s) : OccursAt(s, i, m)}
  IN IF at = {} THEN 0 ELSE CHOOSE i \in at : \A j \in at : i <= j
\* m in s
Contains(s, m) == Find(s, m) # 0
\* s.split(m)[0]
SplitFirst(s, m) == IF Contains(s, m) THEN SubSeq(s, 1, Find(s, m) - 1) ELSE s
\* re.sub(r'[^...]', '', s): the characters of s that are in `kept`
Keep(s, kept) == LET In(c) == c \in kept IN FilterSeq(In, s)
\* s.replace(a, b) for single characters
ReplaceChar(s, a, b) == [i \in 1..Len(s) |-> IF s[i] = a THEN b ELSE s[i]]
\* s.replace(a, '')
RemoveChar(s, a) == LET Other(c) == c # a IN FilterSeq(Other, s)
\* s[:n]
Prefix(s, n) == SubSeq(s, 1, IF n < Len(s) THEN n ELSE Len(s))
\* s[a:b] with 0 <= a <= b
Slice(s, a, b) == SubSeq(s, a + 1, IF b < Len(s) THEN b ELSE Len(s))

\* ------------------------------------------------------------------ float
Float(digits, point) == [digits |-> digits, point |-> point]
Zero == Float(<<>>, 0)
ValueError == Raises("ValueError")

RECURSIVE LeadingZeros(_)
LeadingZeros(ds) ==
  IF ds = <<>> \/ Head(ds) # "0" THEN 0 ELSE 1 + LeadingZeros(Tail(ds))

RECURSIVE StripTrailingZeros(_)
StripTrailingZeros(ds) ==
  IF ds = <<>> \/ ds[Len(ds)] # "0" THEN ds
  ELSE StripTrailingZeros(SubSeq(ds, 1, Len(ds) - 1))

\* float(s) for a str s: digits with at most one '.', at least one digit
PyFloat(s) ==
  LET dots == {i \in 1..Len(s) : s[i] = "."}
      all == Keep(s, DigitChars)
      wellFormed == /\ \A i \in 1..Len(s) : s[i] \in DigitChars \cup {"."}
                    /\ Cardinality(dots) <= 1
                    /\ all # <<>>
      intLen == IF dots = {} THEN Len(s) ELSE (CHOOSE i \in dots : TRUE) - 1
      lz == LeadingZeros(all)
  IN IF ~wellFormed THEN ValueError
     ELSE IF lz = Len(all) THEN Zero
     ELSE Float(StripTrailingZeros(SubSeq(all, lz + 1, Len(all))), intLen - lz)

\* ------------------------------------------- WalmartScraper.extract_price
\* if "precio actual" in price_text: price_text = price_text.split("precio actual")[0]
\* variant: the text after the marker is parsed too
MarkerCutKeepsAll(text) == text
MarkerCut(text) == SplitFirst(text, MarkerText)

\* re.sub(r'[^\d.,]', '', price_text)
StripNonNumeric(text) == Keep(text, DigitChars \cup {".", ","})

\* the comma handling of clean_price
\* variant: every comma becomes a decimal point
SeparatorsAlwaysDecimal(clean) == ReplaceChar(clean, ",", ".")
Separators(clean) ==
  IF Contains(clean, <<",">>) /\ Contains(clean, <<".">>) THEN RemoveChar(clean, ",")
  ELSE IF Contains(clean, <<",">>) THEN ReplaceChar(clean, ",", ".")
  ELSE clean

\* if len(clean_price) > 8 and clean_price[:4] == clean_price[4:8]:
\*     clean_price = clean_price[:len(clean_price)//2]
Deduplicate(clean) ==
  IF Len(clean) > 8 /\ Prefix(clean, 4) = Slice(clean, 4, 8)
  THEN Prefix(clean, Len(clean) \div 2)
  ELSE clean

\* the string handed to float()
WalmartCleanPrice(text) == Deduplicate(Separators(StripNonNumeric(MarkerCut(text))))

\* except (ValueError, TypeError): return 0.0
ZeroOnValueError(f) == IF f = ValueError THEN Zero ELSE f

WalmartExtractPrice(price_text) ==
  IF Falsy(price_text) THEN Returns(Zero)
  ELSE IF IsStr(price_text)
    THEN Returns(ZeroOnValueError(PyFloat(WalmartCleanPrice(price_text.str))))
  ELSE IF DOMAIN price_text = {"list"}
    THEN IF \E i \in 1..Len(price_text.list) : price_text.list[i] = PyStr(MarkerText)
         THEN Raises("AttributeError")     \* list has no attribute 'split'
         ELSE Returns(Zero)                \* re.sub: TypeError, caught
  ELSE Returns(Zero)                       \* "..." in 5: TypeError, caught

\* ------------------------------------------ ChedrauiScraper.extract_price
\* the end of the run of characters of `set` that starts at position j (j - 1: none)
RECURSIVE RunEnd(_, _, _)
RunEnd(s, j, set) ==
  IF j > Len(s) \/ s[j] \notin set THEN j - 1 ELSE RunEnd(s, j + 1, set)

\* the group of \$\s*(\d+(?:[.,]\d+)?) when the match starts at position i
PesoGroupAt(s, i) ==
  LET j == RunEnd(s, i + 1, {" "}) + 1
      e == RunEnd(s, j, DigitChars)
      f == RunEnd(s, e + 2, DigitChars)
  IN IF e + 1 <= Len(s) /\ s[e + 1] \in {".", ","} /\ f >= e + 2
     THEN SubSeq(s, j, f)
     ELSE SubSeq(s, j, e)

PesoMatches(s, i) ==
  /\ s[i] = "$"
  /\ RunEnd(s, RunEnd(s, i + 1, {" "}) + 1, DigitChars) >= RunEnd(s, i + 1, {" "}) + 1

\* re.search(r'\$\s*(\d+(?:[.,]\d+)?)', price_text): 0 when there is no match
PesoSearch(s) ==
  LET at == {i \in 1..Len(s) : PesoMatches(s, i)}
  IN IF at = {} THEN 0 ELSE CHOOSE i \in at : \A j \in at : i <= j

\* the string handed to float()
ChedrauiCleanPrice(text) ==
  IF PesoSearch(text) # 0
  THEN ReplaceChar(PesoGroupAt(text, PesoSearch(text)), ",", ".")
  ELSE Keep(ReplaceChar(text, ",", "."), DigitChars \cup {"."})

ChedrauiExtractPrice(price_text) ==
  IF Falsy(price_text) THEN Returns(Zero)
  ELSE IF IsStr(price_text)
    THEN Returns(ZeroOnValueError(PyFloat(ChedrauiCleanPrice(price_text.str))))
  ELSE Returns(Zero)                       \* re.search: TypeError, caught

\* ------------------------------------------------------------- str(float)
DigitOf == [d \in 0..9 |-> CASE d = 0 -> "0" [] d = 1 -> "1" [] d = 2 -> "2" [] d = 3 -> "3"
                             [] d = 4 -> "4" [] d = 5 -> "5" [] d = 6 -> "6" [] d = 7 -> "7"
                             [] d = 8 -> "8" [] d = 9 -> "9"]
Zeros(n) == [i \in 1..n |-> "0"]
\* str(x) for a float x >= 0: repr switches to exponent notation below 1e-4 and
\* from 1e16 on
FloatStr(x) ==
  LET ds == x.digits
      n == Len(ds)
      e == x.point - 1
      abs == IF e < 0 THEN -e ELSE e
  IN IF x = Zero THEN <<"0", ".", "0">>
     ELSE IF e >= -4 /\ e < 16
       THEN IF x.point <= 0 THEN <<"0", ".">> \o Zeros(-x.point) \o ds
            ELSE IF x.point >= n THEN ds \o Zeros(x.point - n) \o <<".", "0">>
            ELSE SubSeq(ds, 1, x.point) \o <<".">> \o SubSeq(ds, x.point + 1, n)
     ELSE <<Head(ds)>> \o (IF n > 1 THEN <<".">> \o Tail(ds) ELSE <<>>)
          \o <<"e", IF e < 0 THEN "-" ELSE "+">>
          \o <<DigitOf[(abs \div 10) % 10], DigitOf[abs % 10]>>

\* ------------------------------------------------ price texts and the check
\* MaxTokens: number of pieces a price text is assembled from.
MaxTokens == 4

PriceTokens ==
  { <<"$">>, <<"1">>, <<"0">>, <<".">>, <<",">>, <<"1", "2", "3", "4">>, <<".", "5", "6">>,
    <<"0", "0", "0", "0">>, MarkerText }

PerKg == <<"$", "3", "6", ".", "9", "0", "/", "k", "g">>
\* "$36.90/kgprecio actual $36.90/kg", "1,234.56", "12,50", "$1,234.56", "1234.561234.56"
TextPerKgTwice == PerKg \o MarkerText \o <<" ">> \o PerKg
TextThousands == <<"1", ",", "2", "3", "4", ".", "5", "6">>
TextDecimalComma == <<"1", "2", ",", "5", "0">>
TextPesoThousands == <<"$">> \o TextThousands
TextTwice == <<"1", "2", "3", "4", ".", "5", "6", "1", "2", "3", "4", ".", "5", "6">>
\* "12341234.5": longer than 8 characters, characters 1-4 equal characters 5-8,
\* and the halves "12341" and "234.5" differ
TextPeriodic == <<"1", "2", "3", "4", "1", "2", "3", "4", ".", "5">>
ExampleTexts ==
  {TextPerKgTwice, TextThousands, TextDecimalComma, TextPesoThousands, TextTwice, TextPeriodic}

PriceTexts == {Concat(l) : l \in SeqsUpTo(PriceTokens, MaxTokens)} \cup ExampleTexts
\* arguments that are not a str: None, 0, 5, [], ["5"], ["precio actual"]
NonStrings ==
  { PyNone, PyInt(0), PyInt(5), PyList(<<>>), PyList(<<PyStr(<<"5">>)>>),
    PyList(<<PyStr(MarkerText)>>) }
PriceInputs == {PyStr(t) : t \in PriceTexts} \cup NonStrings

ScraperIdle ==
  /\ site = "walmart" /\ use_api = FALSE /\ search_terms = <<>> /\ idx = 1
  /\ products = <<>> /\ results = EmptyDict /\ calls = <<>> /\ trace = <<>>
RunnerIdle ==
  /\ api_data = EmptyDict /\ html_data = EmptyDict /\ merged = EmptyDict
  /\ api_returned = EmptyDict /\ html_returned = EmptyDict

\* output with the entry `key` set
With(out, key, val) == [k \in DOMAIN out \cup {key} |-> IF k = key THEN val ELSE out[k]]

callFrame == UNCHANGED <<scraperVarsButPc, runnerVars, input, effects>>

\* WalmartScraper().extract_price(price_text)
ExtractPriceWalmart ==
  /\ pc = "walmart"
  /\ output' = With(output, "walmart", WalmartExtractPrice(input))
  /\ pc' = "chedraui"
  /\ callFrame

\* ChedrauiScraper().extract_price(price_text)
ExtractPriceChedraui ==
  /\ pc = "chedraui"
  /\ output' = With(output, "chedraui", ChedrauiExtractPrice(input))
  /\ pc' = "again"
  /\ callFrame

\* extract_price(str(extract_price(price_text))), when the first call returned
ExtractPriceAgain ==
  /\ pc = "again"
  /\ output' = IF "ret" \in DOMAIN output.walmart
               THEN With(output, "again",
                         WalmartExtractPrice(PyStr(FloatStr(output.walmart.ret))))
               ELSE output
  /\ pc' = "parsed"
  /\ callFrame

PriceInit ==
  /\ input \in PriceInputs
  /\ output = <<>>
  /\ effects = <<>>
  /\ pc = "walmart"
  /\ ScraperIdle
  /\ RunnerIdle

PriceNext ==
  \/ ExtractPriceWalmart
  \/ ExtractPriceChedraui
  \/ ExtractPriceAgain

SpecPrice == PriceInit /\ [][PriceNext]_vars

\* ----------------------------------------------- price parsing: properties
WalmartParsed == pc \in {"chedraui", "again", "parsed"} /\ IsStr(input)
BothParsed == pc \in {"again", "parsed"}
\* 1234.56, 12.5, 36.9
Value1234_56 == Float(<<"1", "2", "3", "4", "5", "6">>, 4)
Value12_5 == Float(<<"1", "2", "5">>, 2)
Value36_9 == Float(<<"3", "6", "9">>, 2)

\* the cleaned string of the Walmart parser before the duplication rule
CleanedText == Separators(StripNonNumeric(MarkerCut(input.str)))
FirstHalf(s) == SubSeq(s, 1, Len(s) \div 2)
SecondHalf(s) == SubSeq(s, Len(s) \div 2 + 1, Len(s))

\* C13: whenever the cleaned price string is longer than 8 characters and its
\* first half equals its second half, extract_price returns the value of the
\* first half; "1234.561234.56" yields 1234.56.
C13_DuplicatedPriceYieldsFirstHalf ==
  WalmartParsed =>
    /\ (Len(CleanedText) > 8 /\ FirstHalf(CleanedText) = SecondHalf(CleanedText))
         => output.walmart = Returns(ZeroOnValueError(PyFloat(FirstHalf(CleanedText))))
    /\ input.str = TextTwice => output.walmart = Returns(Value1234_56)

\* C27: a cleaned price string longer than 8 characters whose first half
\* differs from its second half is parsed in full by WalmartScraper.extract_price,
\* never cut to its first half; "12341234.5" yields 12341234.5.
C27_UnequalHalvesParsedInFull ==
  WalmartParsed =>
    ((Len(CleanedText) > 8 /\ FirstHalf(CleanedText) # SecondHalf(CleanedText))
       => output.walmart = Returns(ZeroOnValueError(PyFloat(CleanedText))))

\* the separator rule, written from the claim: commas are dropped when a '.' is
\* present too, and become '.' when there is no '.'
HasChar(s, c) == \E i \in 1..Len(s) : s[i] = c
CommasDropped(s) == LET NotComma(c) == c # "," IN FilterSeq(NotComma, s)
CommasToPoints(s) == [i \in 1..Len(s) |-> IF s[i] = "," THEN "." ELSE s[i]]
SeparatorRule(s) ==
  IF HasChar(s, ",") /\ HasChar(s, ".") THEN CommasDropped(s)
  ELSE IF HasChar(s, ",") THEN CommasToPoints(s)
  ELSE s

\* C14: in WalmartScraper.extract_price, after stripping every character except
\* digits, '.' and ',', the commas of a string with both '.' and ',' are removed
\* and the commas of a string with only ',' become decimal points: the result is
\* the value of the string so rewritten; "1,234.56" yields 1234.56 and "12,50"
\* yields 12.5.
C14_SeparatorRule ==
  WalmartParsed =>
    /\ output.walmart =
         Returns(ZeroOnValueError(PyFloat(Deduplicate(
           SeparatorRule(StripNonNumeric(MarkerCut(input.str)))))))
    /\ input.str = TextThousands => output.walmart = Returns(Value1234_56)
    /\ input.str = TextDecimalComma => output.walmart = Returns(Value12_5)

C14_Witness ==
  /\ WalmartParsed
  /\ input.str = TextThousands
  /\ output.walmart = Returns(Value1234_56)

\* C15: ChedrauiScraper.extract_price and WalmartScraper.extract_price return the
\* same value for every price text.
C15_ParsersAgree ==
  (BothParsed /\ IsStr(input)) => output.chedraui = output.walmart

\* what float() cannot parse: no digit, several points, not a str
Unparseable(v) == ~IsStr(v) \/ PyFloat(v.str) = ValueError

\* C16: extract_price never raises, in either scraper, and returns 0.0 for empty
\* or None input and for anything that cannot be parsed as a number.
C16_ExtractPriceNeverRaises ==
  BothParsed =>
    /\ "ret" \in DOMAIN output.walmart
    /\ "ret" \in DOMAIN output.chedraui
    /\ Unparseable(input) => /\ output.walmart = Returns(Zero)
                             /\ output.chedraui = Returns(Zero)

\* the text before the first occurrence of the marker
BeforeMarker(s) ==
  LET at == {i \in 1..Len(s) : i + Len(MarkerText) - 1 <= Len(s)
                                /\ SubSeq(s, i, i + Len(MarkerText) - 1) = MarkerText}
      first == CHOOSE i \in at : \A j \in at : i <= j
  IN SubSeq(s, 1, first - 1)
HasMarker(s) ==
  \E i \in 1..Len(s) : /\ i + Len(MarkerText) - 1 <= Len(s)
                       /\ SubSeq(s, i, i + Len(MarkerText) - 1) = MarkerText

\* C17: when the price text contains "precio actual", WalmartScraper.extract_price
\* parses only the text before the first occurrence of the marker;
\* "$36.90/kgprecio actual $36.90/kg" yields 36.90.
C17_MarkerRule ==
  WalmartParsed =>
    /\ HasMarker(input.str) =>
         output.walmart =
           Returns(ZeroOnValueError(PyFloat(Deduplicate(Separators(
             StripNonNumeric(BeforeMarker(input.str)))))))
    /\ input.str = TextPerKgTwice => output.walmart = Returns(Value36_9)

C17_Witness ==
  /\ WalmartParsed
  /\ input.str = TextPerKgTwice
  /\ output.walmart = Returns(Value36_9)

\* C18: for every valid numeric string x,
\* extract_price(str(extract_price(x))) = extract_price(x).
C18_IdempotentOnOwnOutput ==
  (pc = "parsed" /\ IsStr(input) /\ PyFloat(input.str) # ValueError)
    => output.again = output.walmart

\* ====================================================================
\* Record building from JSON responses (one product structure at a time)
\* ====================================================================
\* A JSON object is PyDict(f) with f a function on its keys; null is PyNone, a
\* number is PyInt(n), an array is PyList(seq). Names, identifiers and URLs are
\* plain strings. The outcome of one loop iteration is a record (Made), nothing
\* (Skipped: continue) or nothing because the iteration raised and the
\* per-structure except clause logged it (Dropped).
PyDict(f) == [dict |-> f]
EmptyPyDict == PyDict(<<>>)
IsDict(v) == DOMAIN v = {"dict"}
Made(rec) == [made |-> rec]
Skipped == [skipped |-> TRUE]
Dropped(e) == [dropped |-> e]
IsMade(o) == DOMAIN o = {"made"}

\* key in v, for v a dict (None and numbers raise TypeError: InRaises)
In(key, v) == IsDict(v) /\ key \in DOMAIN v.dict
InRaises(v) == DOMAIN v = {"none"} \/ DOMAIN v = {"int"}
\* v.get(key, default), for v a dict (anything else raises AttributeError)
Get(v, key, default) == IF key \in DOMAIN v.dict THEN v.dict[key] ELSE default
\* not v, for the values of a response
FalsyJson(v) == Falsy(v) \/ (IsDict(v) /\ DOMAIN v.dict = {})

\* float(v): a number stays that number, a str is parsed, anything else is a TypeError
ToFloat(v) ==
  IF DOMAIN v = {"int"} THEN v
  ELSE IF IsStr(v) THEN PyFloat(v.str)
  ELSE Raises("TypeError")
FloatRaises(v) == "raise" \in DOMAIN ToFloat(v)
\* f"${price}"
PesoText(v) == [peso |-> v]

\* --- WalmartScraper.search_product_direct_api, one suggestion
NormalizeDirect(suggestion, query) ==
  IF ~In("productId", suggestion) THEN Skipped
  ELSE LET product_id == Get(suggestion, "productId", "")
           priceInfo == Get(suggestion, "priceInfo", EmptyPyDict)
       IN IF ~IsDict(priceInfo) THEN Dropped("AttributeError")
          ELSE Made([name |-> Get(suggestion, "displayName", ""),
                     price_text |-> Get(priceInfo, "priceString", ""),
                     price |-> IF In("price", priceInfo) /\ ~FloatRaises(priceInfo.dict.price)
                               THEN ToFloat(priceInfo.dict.price) ELSE Zero,
                     product_id |-> product_id,
                     url |-> IpUrl(product_id),
                     image_url |-> Get(suggestion, "imageUrl", ""),
                     source |-> "api-direct",
                     store |-> "Walmart",
                     query |-> query])

\* --- WalmartScraper.search_product_graphql_api, one product
GraphqlPrice(product) ==
  LET none == [price_text |-> "", price_value |-> Zero]
  IN IF ~In("priceInfo", product) THEN none
     ELSE LET priceInfo == product.dict.priceInfo
          IN IF InRaises(priceInfo) THEN Raises("TypeError")
             ELSE IF ~In("itemPrice", priceInfo) THEN none
             ELSE LET itemPrice == priceInfo.dict.itemPrice
                  IN IF InRaises(itemPrice) THEN Raises("TypeError")
                     ELSE IF ~In("priceString", itemPrice) THEN none
                     ELSE LET f == ToFloat(Get(itemPrice, "price", PyInt(0)))
                          IN IF "raise" \in DOMAIN f THEN f
                             ELSE [price_text |-> itemPrice.dict.priceString,
                                   price_value |-> f]

NormalizeGraphql(product) ==
  LET p == GraphqlPrice(product)
      imageInfo == Get(product, "imageInfo", EmptyPyDict)
      shelf == Get(product, "shelf", EmptyPyDict)
  IN IF "raise" \in DOMAIN p THEN Dropped(p.raise)
     ELSE IF ~IsDict(imageInfo) THEN Dropped("AttributeError")
     ELSE IF ~IsDict(shelf) THEN Dropped("AttributeError")
     ELSE Made([name |-> Get(product, "name", ""),
                price_text |-> p.price_text,
                price |-> p.price_value,
                product_id |-> Get(product, "id", ""),
                url |-> Get(product, "canonicalUrl", ""),
                image_url |-> Get(imageInfo, "thumbnailUrl", ""),
                source |-> "api",
                store |-> "Walmart",
                category |-> Get(shelf, "name", "")])

\* --- WalmartScraper.extract_products_from_search_page, one embedded item
NormalizePageJson(item, query) ==
  LET price_info == Get(item, "priceInfo", EmptyPyDict)
      current_price == Get(price_info, "currentPrice", EmptyPyDict)
      price == Get(current_price, "price", Zero)
      image_info == Get(item, "imageInfo", EmptyPyDict)
      product_id == Get(item, "usItemId", "")
  IN IF ~IsDict(price_info) THEN Dropped("AttributeError")
     ELSE IF ~IsDict(current_price) THEN Dropped("AttributeError")
     ELSE IF ~IsDict(image_info) THEN Dropped("AttributeError")
     ELSE Made([name |-> Get(item, "name", ""),
                price_text |-> Get(current_price, "priceString", PesoText(price)),
                price |-> price,
                product_id |-> product_id,
                url |-> IpUrl(product_id),
                image_url |-> Get(image_info, "thumbnailUrl", ""),
                source |-> "search-page-json",
                store |-> "Walmart",
                query |-> query])

\* --- ChedrauiScraper.search_product_api, one product
\* selling_price / list_price: price_info[key]['lowPrice'] when both are there
ChedrauiLowPrice(product, key) ==
  LET price_info == Get(product, "priceRange", EmptyPyDict)
  IN IF FalsyJson(price_info) THEN PyNone
     ELSE IF InRaises(price_info) THEN Raises("TypeError")
     ELSE IF ~In(key, price_info) THEN PyNone
     ELSE LET low_info == price_info.dict[key]
          IN IF FalsyJson(low_info) THEN PyNone
             ELSE IF InRaises(low_info) THEN Raises("TypeError")
             ELSE IF ~In("lowPrice", low_info) THEN PyNone
             ELSE low_info.dict.lowPrice

\* images[0].get('imageUrl', '') of the first of product['items']
ChedrauiImage(product) ==
  IF ~In("items", product) \/ FalsyJson(product.dict.items) THEN Returns("")
  ELSE LET first == product.dict.items.list[1]
       IN IF InRaises(first) THEN Raises("TypeError")
          ELSE IF ~In("images", first) \/ FalsyJson(first.dict.images) THEN Returns("")
          ELSE LET image == first.dict.images.list[1]
               IN IF ~IsDict(image) THEN Raises("AttributeError")
                  ELSE Returns(Get(image, "imageUrl", ""))

NormalizeChedraui(product, query) ==
  LET selling_price == ChedrauiLowPrice(product, "sellingPrice")
      list_price == ChedrauiLowPrice(product, "listPrice")
      image == ChedrauiImage(product)
      link_id == Get(product, "linkText", "")
  IN IF "raise" \in DOMAIN selling_price THEN Dropped(selling_price.raise)
     ELSE IF "raise" \in DOMAIN list_price THEN Dropped(list_price.raise)
     ELSE IF "raise" \in DOMAIN image THEN Dropped(image.raise)
     ELSE Made([name |-> Get(product, "productName", ""),
                brand |-> Get(product, "brand", ""),
                price |-> IF FalsyJson(selling_price) THEN Zero ELSE selling_price,
                price_text |-> IF selling_price = PyNone THEN "" ELSE PesoText(selling_price),
                list_price |-> list_price,
                image_url |-> image.ret,
                product_url |-> IF link_id = "" THEN "" ELSE "/" \o link_id \o "/p",
                product_id |-> Get(product, "productId", ""),
                query |-> query,
                source |-> "api"])

\* ------------------------------------------ product structures and the check
\* MaxStructures: number of product structures in one response.
MaxStructures == 2

\* what a server may put where a price is expected: null, numbers, numeric and
\* non-numeric text
JsonPrices == {PyNone, PyInt(0), PyInt(5), PyInt(-5), PyStr(<<"5">>), PyStr(<<"x">>)}
\* an object given as the set of its (key, value) pairs, some keys left out
Obj(pairs) == PyDict([k \in {p[1] : p \in pairs} |-> (CHOOSE p \in pairs : p[1] = k)[2]])
Absent == [absent |-> TRUE]
\* the objects with key -> v for every v of vs, the key being left out for Absent
WithKey(base, key, vs) ==
  {PyDict([k \in DOMAIN b.dict \cup (IF v = Absent THEN {} ELSE {key}) |->
             IF k = key /\ v # Absent THEN v ELSE b.dict[k]]) : b \in base, v \in vs}

ImageInfos == {Absent, PyNone, Obj({<<"thumbnailUrl", "i">>})}

DirectPriceInfos ==
  {Absent, PyNone, EmptyPyDict}
    \cup WithKey({Obj({<<"priceString", "$5">>})}, "price", JsonPrices \cup {Absent})
DirectSuggestions ==
  WithKey({Obj({<<"displayName", "A">>}), Obj({<<"displayName", "A">>, <<"productId", "1">>})},
          "priceInfo", DirectPriceInfos)

ItemPrices ==
  {PyNone, EmptyPyDict}
    \cup WithKey({Obj({<<"priceString", "$5">>})}, "price", JsonPrices \cup {Absent})
GraphqlPriceInfos == {Absent, PyNone, EmptyPyDict} \cup WithKey({EmptyPyDict}, "itemPrice", ItemPrices)
GraphqlProducts ==
  WithKey(WithKey({Obj({<<"name", "A">>, <<"id", "1">>})}, "priceInfo", GraphqlPriceInfos),
          "imageInfo", ImageInfos)

CurrentPrices == {PyNone} \cup WithKey({EmptyPyDict}, "price", JsonPrices \cup {Absent})
PagePriceInfos == {Absent, PyNone, EmptyPyDict} \cup WithKey({EmptyPyDict}, "currentPrice", CurrentPrices)
PageItems ==
  WithKey(WithKey({Obj({<<"name", "A">>, <<"usItemId", "1">>})}, "priceInfo", PagePriceInfos),
          "imageInfo", ImageInfos)

SellingPrices == {PyNone, EmptyPyDict} \cup WithKey({EmptyPyDict}, "lowPrice", JsonPrices)
PriceRanges == {Absent, PyNone, EmptyPyDict} \cup WithKey({EmptyPyDict}, "sellingPrice", SellingPrices)
ItemsArrays ==
  { Absent, PyList(<<PyNone>>),
    PyList(<<Obj({<<"images", PyList(<<PyNone>>)>>})>>),
    PyList(<<Obj({<<"images", PyList(<<Obj({<<"imageUrl", "i">>})>>)>>})>>) }
ChedrauiProducts ==
  WithKey(WithKey({Obj({<<"productName", "A">>, <<"productId", "1">>})},
                  "priceRange", PriceRanges),
          "items", ItemsArrays)

\* the loop over the structures of a response: the records appended, in order
RECURSIVE Normalized(_, _)
Normalized(F(_), structures) ==
  IF structures = <<>> THEN <<>>
  ELSE (IF IsMade(F(Head(structures))) THEN <<F(Head(structures)).made>> ELSE <<>>)
       \o Normalized(F, Tail(structures))

NormalizeFrame == UNCHANGED <<scraperVarsButPc, runnerVars, input, effects>>

DirectLoop ==
  /\ pc = "direct"
  /\ LET F(s) == NormalizeDirect(s, "a") IN output' = Normalized(F, input)
  /\ pc' = "normalized-direct"
  /\ NormalizeFrame

GraphqlLoop ==
  /\ pc = "graphql"
  /\ output' = Normalized(NormalizeGraphql, input)
  /\ pc' = "normalized-graphql"
  /\ NormalizeFrame

PageJsonLoop ==
  /\ pc = "page"
  /\ LET F(s) == NormalizePageJson(s, "a") IN output' = Normalized(F, input)
  /\ pc' = "normalized-page"
  /\ NormalizeFrame

ChedrauiApiLoop ==
  /\ pc = "api"
  /\ LET F(s) == NormalizeChedraui(s, "a") IN output' = Normalized(F, input)
  /\ pc' = "normalized-api"
  /\ NormalizeFrame

NormalizeInit ==
  /\ pc \in {"direct", "graphql", "page", "api"}
  /\ input \in SeqsUpTo(CASE pc = "direct" -> DirectSuggestions
                          [] pc = "graphql" -> GraphqlProducts
                          [] pc = "page" -> PageItems
                          [] pc = "api" -> ChedrauiProducts, MaxStructures)
  /\ output = <<>>
  /\ effects = <<>>
  /\ ScraperIdle
  /\ RunnerIdle

NormalizeNext ==
  \/ DirectLoop
  \/ GraphqlLoop
  \/ PageJsonLoop
  \/ ChedrauiApiLoop

SpecNormalize == NormalizeInit /\ [][NormalizeNext]_vars

\* ------------------------------------------------- record building: properties
NormalizedDone ==
  pc \in {"normalized-direct", "normalized-graphql", "normalized-page", "normalized-api"}
IsNumber(v) == DOMAIN v = {"int"} \/ DOMAIN v = {"digits", "point"}
NonNegative(v) == DOMAIN v = {"digits", "point"} \/ (DOMAIN v = {"int"} /\ v.int >= 0)

\* C11: in every record built from an API or embedded-JSON response the price is
\* a number greater than or equal to 0.
C11_PriceIsNonNegativeNumber ==
  NormalizedDone => \A i \in 1..Len(output) : NonNegative(output[i].price)

\* C12: a missing, null or wrongly typed field never costs the record: a strategy
\* returns as many records as its response has product structures.
C12_OneRecordPerStructure ==
  NormalizedDone => Len(output) = Len(input)

\* ====================================================================
\* Fetching: WalmartScraper.make_request, BaseScraper.get_page
\* ====================================================================
\* What a call on the session can do: raise one of the RequestException classes
\* of the transport, or return a response with some status. A redirect status
\* is the final one when it is not followed (allow_redirects=False) or cannot
\* be followed (304, or no Location header).
TransportErrors == {"ConnectionError", "Timeout", "TooManyRedirects"}
Statuses == {200, 204, 301, 304, 403, 404, 412, 429, 500}
Response(status, url) == [status_code |-> status, url |-> url]
SessionOutcomes(url) ==
  {Raises(e) : e \in TransportErrors} \cup {Returns(Response(s, url)) : s \in Statuses}

\* response.raise_for_status(): HTTPError for a 4xx or 5xx status
RaiseForStatus(response) ==
  IF response.status_code >= 400 /\ response.status_code < 600
  THEN Raises("HTTPError") ELSE Returns(PyNone)

\* method.upper()
Upper(method) == IF method = "get" THEN "GET" ELSE IF method = "post" THEN "POST" ELSE method
Supported(method) == Upper(method) \in {"GET", "POST"}

Effect(fn, args, result) == [fn |-> fn, args |-> args, result |-> result]

\* variant: the status of the response is not looked at
MakeRequestReturnsAnyResponse(method, sent) ==
  IF ~Supported(method) THEN Returns(PyNone)
  ELSE IF "raise" \in DOMAIN sent THEN Returns(PyNone)
  ELSE Returns(sent.ret)

\* what make_request returns, `sent` being the outcome of session.get / session.post
MakeRequestOutcome(method, sent) ==
  IF ~Supported(method) THEN Returns(PyNone)
  ELSE IF "raise" \in DOMAIN sent THEN Returns(PyNone)
  ELSE IF sent.ret.status_code \in {403, 412, 429} THEN Returns(PyNone)
  ELSE IF "raise" \in DOMAIN RaiseForStatus(sent.ret) THEN Returns(PyNone)
  ELSE Returns(sent.ret)

\* the calls make_request makes, in order
MakeRequestEffects(args, sent) ==
  <<Effect("time.sleep", "random", Returns(PyNone)),
    Effect("rate_limit", "1.5", Returns(PyNone))>>
  \o (IF ~Supported(args.method) THEN <<Effect("logger.error", "unsupported", Returns(PyNone))>>
      ELSE <<Effect(IF Upper(args.method) = "GET" THEN "session.get" ELSE "session.post",
                    args, sent)>>
           \o (IF "raise" \in DOMAIN sent
                 THEN <<Effect("logger.error", sent.raise, Returns(PyNone))>>
               ELSE IF sent.ret.status_code \in {403, 412}
                 THEN <<Effect("logger.error", "status", Returns(PyNone))>>
               ELSE IF sent.ret.status_code = 429
                 THEN <<Effect("logger.error", "status", Returns(PyNone)),
                        Effect("time.sleep", "10", Returns(PyNone))>>
               ELSE <<Effect("raise_for_status", "response", RaiseForStatus(sent.ret))>>
                    \o (IF "raise" \in DOMAIN RaiseForStatus(sent.ret)
                        THEN <<Effect("logger.error", "HTTPError", Returns(PyNone))>>
                        ELSE <<>>)))

FetchFrame == UNCHANGED <<scraperVarsButPc, runnerVars, input>>

MakeRequest ==
  /\ pc = "make_request"
  /\ \E sent \in SessionOutcomes(input.url) :
       /\ (sent = Returns(Response(301, input.url)) => ~input.allow_redirects)
       /\ output' = MakeRequestOutcome(input.method, sent)
       /\ effects' = MakeRequestEffects(input, sent)
  /\ pc' = "returned"
  /\ FetchFrame

\* variant: the failure is logged and None is returned
GetPageSwallows(sent) ==
  IF "raise" \in DOMAIN sent THEN Returns(PyNone)
  ELSE IF "raise" \in DOMAIN RaiseForStatus(sent.ret) THEN Returns(PyNone)
  ELSE Returns(sent.ret)

\* what get_page returns or raises, `sent` being the outcome of session.get
GetPageOutcome(sent) ==
  IF "raise" \in DOMAIN sent THEN sent
  ELSE IF "raise" \in DOMAIN RaiseForStatus(sent.ret) THEN RaiseForStatus(sent.ret)
  ELSE Returns(sent.ret)

\* the calls get_page makes, in order
GetPageEffects(args, sent) ==
  <<Effect("session.get", args, sent)>>
  \o (IF "raise" \in DOMAIN sent THEN <<Effect("logger.error", sent.raise, Returns(PyNone))>>
      ELSE <<Effect("raise_for_status", "response", RaiseForStatus(sent.ret))>>
           \o (IF "raise" \in DOMAIN RaiseForStatus(sent.ret)
               THEN <<Effect("logger.error", "HTTPError", Returns(PyNone))>>
               ELSE <<>>))

GetPage ==
  /\ pc = "get_page"
  /\ \E sent \in SessionOutcomes(input.url) :
       /\ output' = GetPageOutcome(sent)
       /\ effects' = GetPageEffects(input, sent)
  /\ pc' = "returned"
  /\ FetchFrame

Urls == {"/search?q=a", "/api/autocomplete/v2"}
ParamValues == {"None", "q=a"}
MakeRequestArgs ==
  [fn : {"make_request"}, url : Urls, method : {"GET", "get", "POST", "PUT"},
   params : ParamValues, allow_redirects : BOOLEAN]
GetPageArgs == [fn : {"get_page"}, url : Urls, params : ParamValues]

FetchInit ==
  /\ input \in MakeRequestArgs \cup GetPageArgs
  /\ pc = input.fn
  /\ output = <<>>
  /\ effects = <<>>
  /\ ScraperIdle
  /\ RunnerIdle

FetchNext ==
  \/ MakeRequest
  \/ GetPage

SpecFetch == FetchInit /\ [][FetchNext]_vars

\* ----------------------------------------------------- fetching: properties
\* the calls made on the session, and what the (only) one did
SessionCalls == {i \in 1..Len(effects) : effects[i].fn \in {"session.get", "session.post"}}
Sent == effects[CHOOSE i \in SessionCalls : TRUE].result
MakeRequestReturned == pc = "returned" /\ input.fn = "make_request"
GetPageReturned == pc = "returned" /\ input.fn = "get_page"
UnsupportedMethod == input.method \notin {"GET", "get", "POST", "post"}
StatusIn(lo, hi) ==
  /\ SessionCalls # {}
  /\ "ret" \in DOMAIN Sent
  /\ Sent.ret.status_code >= lo /\ Sent.ret.status_code <= hi
TransportFailed == SessionCalls # {} /\ "raise" \in DOMAIN Sent

C20_GetPageOneGetThenReturnOrReraise ==
  GetPageReturned =>
    /\ Cardinality(SessionCalls) = 1
    /\ \A i \in SessionCalls : /\ effects[i].fn = "session.get"
                               /\ effects[i].args.url = input.url
                               /\ effects[i].args.params = input.params
    /\ StatusIn(100, 399) => output = Returns(Sent.ret)
    /\ TransportFailed => output = Sent
    /\ StatusIn(400, 599) => output = Raises("HTTPError")
    /\ "raise" \in DOMAIN output => effects[Len(effects)].fn = "logger.error"

C20_Witness ==
  /\ GetPageReturned
  /\ StatusIn(500, 500)
  /\ output = Raises("HTTPError")
  /\ effects[Len(effects)].fn = "logger.error"

\* ====================================================================
\* Page extraction: ChedrauiScraper._extract_products and the selector loop
\* of WalmartScraper.extract_products_from_search_page, one call each
\* ====================================================================
\* input is the call: the function and the parsed page. output is the list
\* returned. effects lists, in order, the element lists the call iterated over
\* (fn "enumerate", args <<stage, path>>, result = how many elements were turned
\* into loop iterations) and the select calls it made.

MaxElements == 11
MaxDepth == 6

ExtractQuery == "a"
ExtractUrl == "/a?_q=a&map=ft"

Uniform(e, n) == [i \in 1..n |-> e]
Min(a, b) == IF a <= b THEN a ELSE b

\* ancestor chains of up to MaxDepth levels with a name element in one level at most
AncestorChains ==
  {NoName(d) : d \in 1..MaxDepth}
  \cup {[j \in 1..d |-> IF j = at THEN "A" ELSE NoKey] : d \in 1..MaxDepth, at \in 1..MaxDepth}
FbNodes == {FbElem(c) : c \in AncestorChains}

PricedAnonymous == [priced |-> TRUE, name |-> NoKey]
\* the semantic paths when path k matches n copies of e and the others m copies
SemUniform(e, k, n, m) == [j \in 1..NumSemPaths |-> Uniform(e, IF j = k THEN n ELSE m)]

\* pages whose CSS containers and fallback price elements vary
CssPages ==
  {Page(css, tree, <<>>, EmptySem, fb) :
     css \in ItemListsUpTo[MaxItems], tree \in BOOLEAN, fb \in FbListsUpTo[MaxItems]}
\* pages whose fallback price elements have every ancestor chain
FallbackPages ==
  {Page(css, FALSE, <<>>, EmptySem, fb) :
     css \in {<<>>, <<Item("1", "")>>},
     fb \in {<<>>} \cup {<<n>> : n \in FbNodes}
            \cup {l \in {<<n, m>> : n \in FbNodes, m \in FbElems} : OnOnePage(l)}}
\* pages whose XPath matches vary, with or without a fallback price element
XPathPages ==
  LET fbs == {<<>>, <<FbElem(NoName(AncestorLevels))>>}
  IN {Page(<<>>, TRUE, lit, sem, fb) :
        lit \in LitListsUpTo[MaxItems], sem \in SemInputsUpTo[1], fb \in fbs}
     \cup {Page(<<>>, TRUE, <<>>, sem, fb) : sem \in SemInputsUpTo[MaxItems], fb \in fbs}
\* pages with up to MaxElements matches of one path, or fallback price elements
LongPages ==
  {Page(<<>>, TRUE, Uniform("$5", n), EmptySem, <<>>) : n \in 0..MaxElements}
  \cup {Page(<<>>, TRUE, <<>>, SemUniform(PricedAnonymous, k, n, m), <<>>) :
          k \in 1..NumSemPaths, n \in 0..MaxElements, m \in {0, MaxElements}}
  \cup {Page(<<>>, tree, <<>>, EmptySem, Uniform(FbElem(NoName(AncestorLevels)), n)) :
          tree \in BOOLEAN, n \in 0..MaxElements}
ChedrauiPages == CssPages \cup FallbackPages \cup XPathPages \cup LongPages

\* search pages: no embedded item or one, the elements of the first selector and
\* no element or one of a later selector
SelectorPages ==
  {PageResp("none", <<>>, <<>>, <<>>)}
  \cup {PageResp("ok", j, s1, s2) :
          j \in {<<>>, <<Item("1", "A")>>},
          s1 \in ItemListsUpTo[MaxItems], s2 \in ItemListsUpTo[1]}

ExtractCall(fn, page) == [fn |-> fn, page |-> page]
ExtractInputs ==
  {ExtractCall("_extract_products", p) : p \in ChedrauiPages}
  \cup {ExtractCall("extract_products_from_search_page", r) : r \in SelectorPages}

\* ------------------------------------------------- what the stages iterate
RECURSIVE SemEffects(_, _)
SemEffects(sem, k) ==
  IF k > NumSemPaths THEN <<>>
  ELSE <<Effect("enumerate", <<"xpath", k>>, Len(FirstN(sem[k], XPathCap)))>>
       \o SemEffects(sem, k + 1)

RECURSIVE WalkEffects(_, _)
WalkEffects(fb, i) ==
  IF i > Len(fb) THEN <<>>
  ELSE <<Effect("select_one", <<"fallback", i>>, AncestorWalk(fb[i].ancestors).examined)>>
       \o WalkEffects(fb, i + 1)

\* the stages of _extract_products as the guards `if not products` admit them
ExtractProductsEffects(page, query, url) ==
  LET p1 == CssStage(page.css, query)
      p2 == IF page.tree THEN XPathStage(page.lit, page.sem, query) ELSE <<>>
      p3 == IF page.tree THEN OrigStage(page.lit, 1, query, url) ELSE <<>>
      fb == FirstN(page.fb, XPathCap)
  IN <<Effect("enumerate", <<"css", 0>>, Len(page.css))>>
     \o (IF p1 = <<>> /\ page.tree /\ page.lit = <<>> THEN SemEffects(page.sem, 1) ELSE <<>>)
     \o (IF p1 = <<>> /\ p2 = <<>> /\ page.tree
         THEN <<Effect("enumerate", <<"xpath-original", 0>>, Len(page.lit))>> ELSE <<>>)
     \o (IF p1 = <<>> /\ p2 = <<>> /\ p3 = <<>>
         THEN <<Effect("enumerate", <<"fallback", 0>>, Len(fb))>> \o WalkEffects(fb, 1)
         ELSE <<>>)

\* the soup.select calls of the selector loop: the next selector is tried while
\* `products` is empty
SelectorEffects(query, r) ==
  LET Rec(i) == WalmartPageJsonRecord(i, query)
      first == PageSelectorProducts(query, PageResp("ok", <<>>, r.sel1, <<>>))
  IN IF r.kind # "ok" \/ MapSeq(Rec, r.json) # <<>> THEN <<>>
     ELSE <<Effect("soup.select", <<"selector", 1>>, Len(r.sel1))>>
          \o (IF first = <<>> THEN <<Effect("soup.select", <<"selector", 2>>, Len(r.sel2))>>
              ELSE <<>>)

\* ------------------------------------------------------------- actions
ExtractFrame == UNCHANGED <<scraperVarsButPc, runnerVars, input>>

ExtractProducts ==
  /\ pc = "_extract_products"
  /\ output' = _extract_products(input.page, ExtractQuery, ExtractUrl)
  /\ effects' = ExtractProductsEffects(input.page, ExtractQuery, ExtractUrl)
  /\ pc' = "extracted"
  /\ ExtractFrame

ExtractFromSearchPage ==
  /\ pc = "extract_products_from_search_page"
  /\ output' = extract_products_from_search_page(ExtractQuery, input.page)
  /\ effects' = SelectorEffects(ExtractQuery, input.page)
  /\ pc' = "extracted"
  /\ ExtractFrame

ExtractInit ==
  /\ input \in ExtractInputs
  /\ pc = input.fn
  /\ output = <<>>
  /\ effects = <<>>
  /\ ScraperIdle
  /\ RunnerIdle

ExtractNext ==
  \/ ExtractProducts
  \/ ExtractFromSearchPage

SpecExtract == ExtractInit /\ [][ExtractNext]_vars

\* ------------------------------------------------------------- claims
Extracted(fn) == pc = "extracted" /\ input.fn = fn
Sources(list) == {list[i].source : i \in 1..Len(list)}
Enumerated(stage) ==
  {i \in 1..Len(effects) : effects[i].fn = "enumerate" /\ effects[i].args[1] = stage}
SelectorsTried ==
  {effects[i].args[2] : i \in {j \in 1..Len(effects) : effects[j].fn = "soup.select"}}

\* C22: in the selector loop of the Walmart search page extraction, when the
\* first selector matches at least one element no later selector is evaluated and
\* every returned record comes from an element of the first selector.
C22_FirstMatchingSelectorIsUsed ==
  (/\ Extracted("extract_products_from_search_page")
   /\ input.page.kind = "ok" /\ input.page.json = <<>>
   /\ input.page.sel1 # <<>>)
  => /\ SelectorsTried = {1}
     /\ \A i \in 1..Len(output) :
          \E j \in 1..Len(input.page.sel1) :
            /\ output[i].name = input.page.sel1[j].name
            /\ output[i].product_id = GetId(input.page.sel1[j])

\* the records each stage of _extract_products makes of the page, taken alone
StageRecords ==
  LET page == input.page
  IN << CssStage(page.css, ExtractQuery),
        IF page.tree THEN XPathStage(page.lit, page.sem, ExtractQuery) ELSE <<>>,
        IF page.tree THEN OrigStage(page.lit, 1, ExtractQuery, ExtractUrl) ELSE <<>>,
        FallbackStage(FirstN(page.fb, XPathCap), 1, NameBeforeFallback(page), ExtractQuery,
                      ExtractUrl) >>
StageNames == <<"css", "xpath", "xpath-original", "fallback">>
StagesRun == {k \in 1..Len(StageNames) : Enumerated(StageNames[k]) # {}}

\* C23: the list _extract_products returns is the list of one stage: a stage
\* runs only if every earlier stage produced no record, the first stage with a
\* record ends the chain, and all records of the list carry the same source tag.
C23_OneStagePerList ==
  Extracted("_extract_products") =>
    /\ \A k \in StagesRun : \A m \in 1..(k - 1) : StageRecords[m] = <<>>
    /\ \A k \in 1..Len(StageNames) :
         StageRecords[k] # <<>> /\ (\A m \in 1..(k - 1) : StageRecords[m] = <<>>)
           => output = StageRecords[k]
    /\ Cardinality(Sources(output)) <= 1

\* the literal XPath's records are returned although the fallback has elements too
C23_Witness ==
  /\ Extracted("_extract_products")
  /\ Sources(output) = {"xpath-original"}
  /\ StageRecords[4] # <<>>
  /\ StagesRun = {1, 3}

\* C24: the XPath extraction turns at most 10 elements per path into records,
\* the literal path included, so it returns at most 10 records per path.
C24_TenElementsPerPath ==
  Extracted("_extract_products") =>
    /\ \A i \in Enumerated("xpath") \cup Enumerated("xpath-original") :
         effects[i].result <= XPathCap
    /\ Sources(output) = {"xpath"} => Len(output) <= XPathCap * NumSemPaths
    /\ Sources(output) = {"xpath-original"} => Len(output) <= XPathCap

WalkCounts == {effects[i].result : i \in {j \in 1..Len(effects) : effects[j].fn = "select_one"}}
FallbackNote == "Extracted using general fallback method"

\* C25: in the heuristic fallback at most 5 ancestors of a price element are
\* searched for a name element, and every record of the fallback carries the
\* note that names the general fallback method.
C25_FiveLevelsAndNote ==
  Extracted("_extract_products") =>
    /\ \A n \in WalkCounts : n <= 5
    /\ \A i \in 1..Len(output) :
         output[i].source = "fallback" => output[i].note = FallbackNote

\* a price element with six ancestors and no name element: five are searched and
\* the record carries the note
C25_Witness ==
  /\ Extracted("_extract_products")
  /\ Len(input.page.fb) = 1
  /\ input.page.fb[1].ancestors = NoName(MaxDepth)
  /\ WalkCounts = {5}
  /\ Len(output) = 1 /\ output[1].source = "fallback" /\ output[1].note = FallbackNote

\* the name the element itself gives: the text of the name element in the nearest
\* of its first five ancestors, else the synthetic name
OwnName(e, i) ==
  LET named == {j \in 1..Min(5, Len(e.ancestors)) : e.ancestors[j] # NoKey}
  IN IF named = {} THEN SynthName(ExtractQuery, i)
     ELSE e.ancestors[CHOOSE j \in named : \A m \in named : j <= m]

\* C28: each of the first 10 price elements of the heuristic fallback yields one
\* record, whose name is the text of a name element among its own first five
\* ancestors or the synthetic name with the element's index.
C28_OneRecordPerElementOwnName ==
  (Extracted("_extract_products") /\ Enumerated("fallback") # {}) =>
    LET fb == FirstN(input.page.fb, 10)
    IN /\ Len(output) = Len(fb)
       /\ \A i \in 1..Min(Len(output), Len(fb)) : output[i].name = OwnName(fb[i], i)

\* ====================================================================
\* Requests: scrape() seen from the network, one loop iteration per step
\* ====================================================================
\* The network is a fixed mapping from requests to outcomes; input holds the part
\* of it consulted so far. A request is the endpoint, the term and the referer
\* header it carries. output is the referer header of the session. effects is
\* the log of search_product calls, pacing calls and requests sent.

Request(e, t, ref) == [endpoint |-> e, term |-> t, referer |-> ref]
\* 'referer': f'{base_url}/' of the constructor, relative to base_url
BaseReferer == "/"
\* custom_headers['referer'] = self.base_url + '/search'
WalmartReferer == "/search"
\* f"{self.base_url}/{query}?_q={query}&map=ft"
SearchReferer(t) == IF t = "a" THEN "/a?_q=a&map=ft" ELSE "/b?_q=b&map=ft"
Endpoints(s) ==
  IF s = "walmart" THEN {"direct", "graphql-post", "graphql-get", "search"}
  ELSE {"api", "html"}
\* "fail": no usable response (transport error, error status, unexpected body);
\* "empty": a body without products; "x", "y": bodies with products, "y" being a
\* search page only
Outcomes == {"fail", "empty", "x", "y"}
OutcomesOf(e) == IF e = "search" THEN Outcomes ELSE Outcomes \ {"y"}
IsRecs(o) == o \in {"x", "y"}
\* the search page "x" has products both in its embedded JSON and in its product
\* cards, the search page "y" in its product cards only
PageYields(o) == o = "x"
HtmlYields(o) == o \in {"x", "y"}

\* the records a strategy makes of a body
Rec(tag, body) == [source |-> tag, body |-> body]

PaceEvent(fn, delay) == Effect(fn, <<>>, delay)
SendEvent(fn, req, w) == Effect(fn, <<req>>, w[req])
CallEvent(t) == Effect("search_product", <<>>, t)

\* variant: a second attempt after the first
ViaMakeRequestTwice(fn, req, w) ==
  <<PaceEvent("time.sleep", "random"), PaceEvent("rate_limit", "1.5"), SendEvent(fn, req, w),
    PaceEvent("time.sleep", "random"), PaceEvent("rate_limit", "1.5"), SendEvent(fn, req, w)>>
\* make_request: the random sleep and rate_limit(1.5), then the request
ViaMakeRequest(fn, req, w) ==
  <<PaceEvent("time.sleep", "random"), PaceEvent("rate_limit", "1.5"), SendEvent(fn, req, w)>>

Resolved(list, log, session, raised) ==
  [list |-> list, log |-> log, session |-> session, raised |-> raised]

\* WalmartScraper.search_product under the mapping w
WalmartResolve(w, session, api, t) ==
  LET d == Request("direct", t, WalmartReferer)
      p == Request("graphql-post", t, WalmartReferer)
      g == Request("graphql-get", t, WalmartReferer)
      s == Request("search", t, WalmartReferer)
      SendGet(r) == ViaMakeRequest("session.get", r, w)
      SendPost(r) == ViaMakeRequest("session.post", r, w)
      html == Resolved(IF HtmlYields(w[s]) THEN <<Rec("html", w[s])>> ELSE <<>>, SendGet(s),
                       session, FALSE)
      page == IF PageYields(w[s])
              THEN Resolved(<<Rec("search-page", w[s])>>, SendGet(s), session, FALSE)
              ELSE Resolved(html.list, SendGet(s) \o html.log, session, FALSE)
      gqlBody == IF w[p] # "fail" THEN w[p] ELSE w[g]
      gqlLog == SendGet(d) \o (IF IsRecs(w[d]) THEN <<>>
                           ELSE SendPost(p) \o (IF w[p] = "fail" THEN SendGet(g) ELSE <<>>))
      graphql == IF IsRecs(w[d])
                 THEN Resolved(<<Rec("api-graphql", w[d])>>, gqlLog, session, FALSE)
                 ELSE IF IsRecs(gqlBody)
                 THEN Resolved(<<Rec("api-graphql", gqlBody)>>, gqlLog, session, FALSE)
                 ELSE Resolved(page.list, gqlLog \o page.log, session, FALSE)
      direct == IF IsRecs(w[d])
                THEN Resolved(<<Rec("api-direct", w[d])>>, SendGet(d), session, FALSE)
                ELSE Resolved(graphql.list, SendGet(d) \o graphql.log, session, FALSE)
  IN IF api THEN direct ELSE html

\* variant: the API request goes out with the referer the session held before
ApiRefererBeforeUpdate(session, t) == session
\* the referer the API request carries: session.headers.update precedes session.get
ApiReferer(session, t) == SearchReferer(t)

\* the session's referer when search_product turns to the HTML page
RefererAfterApi(session, api, t) == IF api THEN SearchReferer(t) ELSE session

\* ChedrauiScraper.search_product under the mapping w; a failed page request is
\* re-raised by get_page and leaves search_product
ChedrauiResolve(w, session, api, t) ==
  LET a == Request("api", t, ApiReferer(session, t))
      after == RefererAfterApi(session, api, t)
      h == Request("html", t, after)
      apiLog == IF api THEN <<SendEvent("session.get", a, w)>> ELSE <<>>
      pageLog == apiLog \o <<SendEvent("session.get", h, w)>>
  IN IF api /\ IsRecs(w[a]) THEN Resolved(<<Rec("api", w[a])>>, apiLog, after, FALSE)
     ELSE IF w[h] = "fail" THEN Resolved(<<>>, pageLog, after, TRUE)
     ELSE Resolved(IF IsRecs(w[h]) THEN <<Rec("html", w[h])>> ELSE <<>>, pageLog, after, FALSE)

\* the requests search_product can send for t, from this session or a new one
RequestsOf(s, api, t, session) ==
  IF s = "walmart" THEN {Request(e, t, WalmartReferer) : e \in Endpoints(s)}
  ELSE {Request("api", t, ApiReferer(ss, t)) : ss \in IF api THEN {session, BaseReferer} ELSE {}}
       \cup {Request("html", t, RefererAfterApi(ss, api, t)) : ss \in {session, BaseReferer}}
\* the mappings from these requests to outcomes
LocalWorlds(s, api, t, session) ==
  {w \in [RequestsOf(s, api, t, session) -> Outcomes] :
     \A r \in RequestsOf(s, api, t, session) : w[r] \in OutcomesOf(r.endpoint)}

Resolve(w, s, session, api, t) ==
  IF s = "walmart" THEN WalmartResolve(w, session, api, t)
  ELSE ChedrauiResolve(w, session, api, t)

RequestsIn(log) == {log[i].args[1] : i \in {j \in 1..Len(log) : log[j].args # <<>>}}

RequestsFrame ==
  UNCHANGED <<site, use_api, search_terms, products, calls, trace, runnerVars>>

\* one iteration of the loop of scrape: search_product, the store, rate_limit.
\* The mapping is also fixed for the requests the same term sends from a new
\* session.
ScrapeTerm ==
  /\ pc = "loop"
  /\ idx <= Len(search_terms)
  /\ \E w \in LocalWorlds(site, use_api, term, output) :
       /\ \A r \in DOMAIN input \cap DOMAIN w : w[r] = input[r]
       /\ LET run == Resolve(w, site, output, use_api, term)
              alone == Resolve(w, site, BaseReferer, use_api, term)
              used == RequestsIn(run.log) \cup RequestsIn(alone.log)
          IN /\ input' = [r \in DOMAIN input \cup used |-> IF r \in used THEN w[r] ELSE input[r]]
             /\ output' = run.session
             /\ IF run.raised
                THEN /\ pc' = "raised"
                     /\ effects' = effects \o <<CallEvent(term)>> \o run.log
                     /\ UNCHANGED <<results, idx>>
                ELSE /\ pc' = "loop"
                     /\ results' = Put(results, term, run.list)
                     /\ effects' = effects \o <<CallEvent(term)>> \o run.log
                                   \o <<PaceEvent("rate_limit", "REQUEST_DELAY")>>
                     /\ idx' = idx + 1
  /\ RequestsFrame

\* return results
ReturnResults ==
  /\ pc = "loop"
  /\ idx > Len(search_terms)
  /\ pc' = "returned"
  /\ UNCHANGED <<idx, results, callVars>>
  /\ RequestsFrame

RequestsInit ==
  /\ site \in {"walmart", "chedraui"}
  /\ use_api \in BOOLEAN
  /\ search_terms \in TermLists
  /\ idx = 1
  /\ pc = "loop"
  /\ results = EmptyDict
  /\ input = <<>>
  /\ output = BaseReferer
  /\ effects = <<>>
  /\ products = <<>> /\ calls = <<>> /\ trace = <<>>
  /\ RunnerIdle

RequestsNext ==
  \/ ScrapeTerm
  \/ ReturnResults

SpecRequests == RequestsInit /\ [][RequestsNext]_vars

\* ------------------------------------------------------------- claims
\* what search_product returns for t in a new session, under the same mapping
Alone(t) == Resolve(input, site, BaseReferer, use_api, t).list

\* C21: under a fixed mapping from requests to outcomes the list scrape stores
\* for a term is the list a new scraper would store for it, whichever terms were
\* resolved before: nothing written while resolving a term (the session's referer
\* header) changes the records of another term.
C21_TermsResolveIndependently ==
  \A t \in DOMAIN results : results[t] = Alone(t)

\* Chedraui with the API: "b" resolved after "a" left its referer in the session
C21_Witness ==
  /\ pc = "returned"
  /\ site = "chedraui" /\ use_api
  /\ search_terms = <<"a", "b">>
  /\ output = SearchReferer("b")
  /\ \E i \in 1..Len(effects) :
       effects[i].args # <<>> /\ effects[i].args[1] = Request("html", "a", SearchReferer("a"))
  /\ results["b"] # <<>>
  /\ results["b"] = Alone("b")

IsSend(e) == e.args # <<>>
IsPace(e) == e.fn \in {"time.sleep", "rate_limit"}

\* C26: between any two successive requests of a run a pacing call is made.
C26_PacingBetweenRequests ==
  \A i, j \in 1..Len(effects) :
    (i < j /\ IsSend(effects[i]) /\ IsSend(effects[j]))
      => \E k \in (i + 1)..(j - 1) : IsPace(effects[k])

CallStarts == {i \in 1..Len(effects) : effects[i].fn = "search_product"}
\* the requests sent by the search_product call that starts at i
SendsOfCall(i) ==
  {k \in (i + 1)..Len(effects) :
     IsSend(effects[k]) /\ \A m \in (i + 1)..k : effects[m].fn # "search_product"}
RequestsBounded ==
  \A i \in CallStarts : Cardinality(SendsOfCall(i)) <= (IF site = "walmart" THEN 6 ELSE 2)
Terminated == pc \in {"returned", "raised"}
\* the steps scrape has left at most: its loop iterations and the return
StepsLeft == IF Terminated THEN 0 ELSE Len(search_terms) - idx + 2

\* C30: scrape terminates, and one search_product call sends at most 6 requests
\* for Walmart and at most 2 for Chedraui. Termination: until scrape has returned
\* or raised a step can be taken, and every step leaves fewer steps to take.
C30_TerminatesWithBoundedRequests ==
  /\ [](RequestsBounded /\ StepsLeft >= 0 /\ (~Terminated => ENABLED RequestsNext))
  /\ [][StepsLeft' < StepsLeft]_vars

\* a Walmart term for which every strategy comes back empty: six requests
C30_Witness ==
  /\ pc = "returned"
  /\ site = "walmart"
  /\ \E i \in CallStarts : Cardinality(SendsOfCall(i)) = 6
  /\ \A t \in DOMAIN results : results[t] = <<>>

====
